---- MODULE Spec2Model ----
(***************************************************************************)
(* Model of the winning-son backend: the AES-256-GCM / HMAC blind-index    *)
(* primitives (internal/crypto), the per-entity orchestration              *)
(* (internal/services), the request handlers that read and write the       *)
(* encrypted columns, the schema migrations, and the backfill migration.   *)
(*                                                                         *)
(* Cryptography is modelled symbolically (perfect cipher, perfect MAC):    *)
(* a sealed body is the term <key, nonce, plaintext>, a GCM tag is the     *)
(* term <key, nonce, body>, an HMAC digest is the term <key, plaintext>.   *)
(* Strings are sequences of one-character strings.                         *)
(***************************************************************************)
EXTENDS Integers, Sequences, FiniteSets, TLC

\* ------------------------------------------------------------------ bounds
MaxUsers == 2
MaxRuns == 2
MaxFaults == 1
MaxCallers == 1
MaxCalls == 2

\* -------------------------------------------------------- program constants
KeySize == 32
NonceSize == 12
TagSize == 16

\* ------------------------------------------------------------------ strings
Empty == <<>>

ToLowerCh(c) == IF c = "A" THEN "a" ELSE IF c = "B" THEN "b" ELSE c

ToLower(s) == [i \in 1..Len(s) |-> ToLowerCh(s[i])]

RECURSIVE TrimLeft(_)
TrimLeft(s) == IF s # <<>> /\ Head(s) = " " THEN TrimLeft(Tail(s)) ELSE s

RECURSIVE TrimRight(_)
TrimRight(s) ==
    IF s # <<>> /\ s[Len(s)] = " " THEN TrimRight(SubSeq(s, 1, Len(s) - 1)) ELSE s

TrimSpace(s) == TrimRight(TrimLeft(s))

\* c.Email = strings.TrimSpace(strings.ToLower(c.Email))
NormalizeEmail(e) == TrimSpace(ToLower(e))

\* ------------------------------------------------------------- key material
\* A key is its identity and its length in bytes; id 0 is the unset variable.
NoKey == [id |-> 0, len |-> 0]
KeyA == [id |-> 1, len |-> 32]
KeyB == [id |-> 2, len |-> 32]
KeyShort == [id |-> 3, len |-> 16]
KeyLong == [id |-> 4, len |-> 33]

GoodKeys == {KeyA, KeyB}
EnvKeys == {NoKey, KeyA, KeyB, KeyShort, KeyLong}

\* ------------------------------------------------------ text column values
\* One record shape for every value a TEXT column or a string variable holds:
\*   kind "null": SQL NULL;  kind "str": the characters s;
\*   kind "b64":  the base64 text of the bytes nonce || body || tag, slack being
\*                the unused trailing bits of its last character (0 as encoded).
NoBody == [key |-> 0, nonce |-> 0, pt |-> Empty]
NoTag == [key |-> 0, nonce |-> 0, body |-> NoBody]

Null == [kind |-> "null", s |-> Empty, nonce |-> 0, body |-> NoBody, tag |-> NoTag, slack |-> 0]

Str(s) == [kind |-> "str", s |-> s, nonce |-> 0, body |-> NoBody, tag |-> NoTag, slack |-> 0]

EmptyStr == Str(Empty)

\* AES-CTR part of gcm.Seal: the body is the plaintext under (key, nonce).
SealBody(key, nonce, pt) == [key |-> key.id, nonce |-> nonce, pt |-> pt]

\* GHASH part of gcm.Seal / gcm.Open: the tag authenticates (key, nonce, body).
GcmTag(key, nonce, body) == [key |-> key.id, nonce |-> nonce, body |-> body]

\* Length in bytes of nonce || gcm.Seal(plaintext).
BlobLen(pt) == NonceSize + Len(pt) + TagSize

\* base64.StdEncoding.EncodeToString: canonical text, trailing bits zero.
EncodeToString(nonce, body, tag) ==
    [kind |-> "b64", s |-> Empty, nonce |-> nonce, body |-> body, tag |-> tag, slack |-> 0]

B64Alphabet == {"a", "b", "A", "B", "w", "o", "r", "k", "g"}

\* base64.StdEncoding.DecodeString (not Strict): padded input of a multiple of
\* four alphabet characters decodes; trailing padding bits are NOT checked.
\* Result: err, the number of bytes, and the bytes split as the caller slices them.
DecodeString(t) ==
    IF t.kind = "b64"
    THEN [err |-> FALSE, len |-> BlobLen(t.body.pt),
          nonce |-> t.nonce, body |-> t.body, tag |-> t.tag]
    ELSE IF t.kind = "str" /\ Len(t.s) % 4 = 0 /\ \A i \in 1..Len(t.s) : t.s[i] \in B64Alphabet
    THEN [err |-> FALSE, len |-> (3 * Len(t.s)) \div 4,
          nonce |-> 0, body |-> NoBody, tag |-> NoTag]
    ELSE [err |-> TRUE, len |-> 0, nonce |-> 0, body |-> NoBody, tag |-> NoTag]

\* aes.NewCipher accepts 16, 24 or 32 byte keys.
AesKeyOK(key) == key.len \in {16, 24, 32}

\* ------------------------------------------------------------ crypto package
\* Results are [val, err]; err = "" is Go's nil error.
Ok(v) == [val |-> v, err |-> ""]
Fail(e) == [val |-> EmptyStr, err |-> e]

\* crypto.NewEncryptionService: the instance, or none with an error.
NoSvc == [ok |-> FALSE, ek |-> NoKey, bk |-> NoKey]

NewEncryptionService(encryptionKey, blindIndexKey) ==
    IF encryptionKey.len # KeySize THEN NoSvc
    ELSE IF blindIndexKey.len # KeySize THEN NoSvc
    ELSE [ok |-> TRUE, ek |-> encryptionKey, bk |-> blindIndexKey]

\* The entropy source: rnd = 0 is a failed read of rand.Reader, rnd > 0 the nonce.
Nonces == {1, 2}
Rnd == {0} \cup Nonces

\* Encrypt with gcm.Seal(nil, ...) in place of gcm.Seal(nonce, ...): the nonce
\* is used but not stored in front of the sealed bytes.
EncryptDetachedNonce(svc, plaintext, rnd) ==
    IF plaintext = Empty THEN Ok(EmptyStr)
    ELSE IF ~AesKeyOK(svc.ek) THEN Fail("key")
    ELSE IF rnd = 0 THEN Fail("rand")
    ELSE LET body == SealBody(svc.ek, rnd, plaintext)
         IN  Ok(EncodeToString(0, body, GcmTag(svc.ek, rnd, body)))

\* Encrypt handing the plaintext back unsealed.
EncryptPassThrough(svc, plaintext, rnd) ==
    IF plaintext = Empty THEN Ok(EmptyStr)
    ELSE IF ~AesKeyOK(svc.ek) THEN Fail("key")
    ELSE IF rnd = 0 THEN Fail("rand")
    ELSE Ok(Str(plaintext))

\* Encrypt sealing under one fixed nonce instead of the bytes it drew.
EncryptFixedNonce(svc, plaintext, rnd) ==
    IF plaintext = Empty THEN Ok(EmptyStr)
    ELSE IF ~AesKeyOK(svc.ek) THEN Fail("key")
    ELSE IF rnd = 0 THEN Fail("rand")
    ELSE LET body == SealBody(svc.ek, 1, plaintext)
         IN  Ok(EncodeToString(1, body, GcmTag(svc.ek, 1, body)))

\* EncryptionService.Encrypt(plaintext), plaintext and result as strings.
Encrypt(svc, plaintext, rnd) ==
    IF plaintext = Empty THEN Ok(EmptyStr)
    ELSE IF ~AesKeyOK(svc.ek) THEN Fail("key")
    ELSE IF rnd = 0 THEN Fail("rand")
    ELSE LET body == SealBody(svc.ek, rnd, plaintext)
         IN  Ok(EncodeToString(rnd, body, GcmTag(svc.ek, rnd, body)))

\* gcm.Open without the comparison of the tag: plain AES-CTR.
GcmOpenUnchecked(key, d) ==
    IF d.len - NonceSize < TagSize THEN Fail("auth")
    ELSE IF d.body.key = key.id /\ d.body.nonce = d.nonce THEN Ok(Str(d.body.pt))
    ELSE Ok(Str(<<"?">>))

\* gcm.Open(nil, nonce, cipherBytes, nil) on decoded bytes d.
GcmOpen(key, d) ==
    IF d.len - NonceSize < TagSize THEN Fail("auth")
    ELSE IF d.tag # GcmTag(key, d.nonce, d.body) THEN Fail("auth")
    ELSE IF d.body.key = key.id /\ d.body.nonce = d.nonce THEN Ok(Str(d.body.pt))
    ELSE Ok(Str(<<"?">>))

\* Decrypt opening with the bytes after the nonce as if they began the blob:
\* the nonce handed to gcm.Open is not the one Encrypt stored.
DecryptNonceNotSplit(svc, ciphertext) ==
    IF ciphertext = EmptyStr THEN Ok(EmptyStr)
    ELSE LET d == DecodeString(ciphertext)
         IN  IF d.err THEN Fail("decode")
             ELSE IF ~AesKeyOK(svc.ek) THEN Fail("key")
             ELSE IF d.len < NonceSize THEN Fail("short")
             ELSE GcmOpen(svc.ek, [d EXCEPT !.nonce = 0])

\* Decrypt without the comparison of len(data) with the nonce size, the short
\* blob left to gcm.Open.
DecryptNoLengthCheck(svc, ciphertext) ==
    IF ciphertext = EmptyStr THEN Ok(EmptyStr)
    ELSE LET d == DecodeString(ciphertext)
         IN  IF d.err THEN Fail("decode")
             ELSE IF ~AesKeyOK(svc.ek) THEN Fail("key")
             ELSE GcmOpen(svc.ek, d)

\* EncryptionService.Decrypt(ciphertext).
Decrypt(svc, ciphertext) ==
    IF ciphertext = EmptyStr THEN Ok(EmptyStr)
    ELSE LET d == DecodeString(ciphertext)
         IN  IF d.err THEN Fail("decode")
             ELSE IF ~AesKeyOK(svc.ek) THEN Fail("key")
             ELSE IF d.len < NonceSize THEN Fail("short")
             ELSE GcmOpen(svc.ek, d)

\* A blind index is the HMAC term [k, p]; NoIdx is SQL NULL, EmptyIdx is "".
NoIdx == [k |-> -1, p |-> Empty]
EmptyIdx == [k |-> 0, p |-> Empty]

\* GenerateBlindIndex without the early return for the empty string.
GenerateBlindIndexOfAnything(svc, plaintext) == [k |-> svc.bk.id, p |-> plaintext]

\* GenerateBlindIndex keyed with the encryption key.
GenerateBlindIndexUnderEncryptionKey(svc, plaintext) ==
    IF plaintext = Empty THEN EmptyIdx ELSE [k |-> svc.ek.id, p |-> plaintext]

\* EncryptionService.GenerateBlindIndex(plaintext).
GenerateBlindIndex(svc, plaintext) ==
    IF plaintext = Empty THEN EmptyIdx ELSE [k |-> svc.bk.id, p |-> plaintext]

\* EncryptWithBlindIndex computing the HMAC under the encryption key.
EncryptWithBlindIndexWrongKey(svc, plaintext, rnd) ==
    LET e == Encrypt(svc, plaintext, rnd)
    IN  IF e.err # "" THEN [encrypted |-> EmptyStr, blindIndex |-> EmptyIdx, err |-> e.err]
        ELSE [encrypted |-> e.val, blindIndex |-> [k |-> svc.ek.id, p |-> plaintext], err |-> ""]

\* EncryptWithBlindIndex returning ("", "", nil) when Encrypt failed.
EncryptWithBlindIndexErrorDropped(svc, plaintext, rnd) ==
    LET e == Encrypt(svc, plaintext, rnd)
    IN  IF e.err # "" THEN [encrypted |-> EmptyStr, blindIndex |-> EmptyIdx, err |-> ""]
        ELSE [encrypted |-> e.val, blindIndex |-> GenerateBlindIndex(svc, plaintext), err |-> ""]

\* EncryptionService.EncryptWithBlindIndex(plaintext): (encrypted, blindIndex, err).
EncryptWithBlindIndex(svc, plaintext, rnd) ==
    LET e == Encrypt(svc, plaintext, rnd)
    IN  IF e.err # "" THEN [encrypted |-> EmptyStr, blindIndex |-> EmptyIdx, err |-> e.err]
        ELSE [encrypted |-> e.val, blindIndex |-> GenerateBlindIndex(svc, plaintext), err |-> ""]

\* --------------------------------------------------------- services package
\* models.User as the handlers use it: the columns that carry sensitive data,
\* the login secret, and the legacy users.goal column (Null once dropped).
User(email, bidx, pw, goal) ==
    [email |-> email, bidx |-> bidx, pw |-> pw, goal |-> goal,
     firstName |-> Null, isAdmin |-> FALSE]

\* EncryptUser without the assignment user.EmailBlindIndex = blindIndex.
EncryptUserNoIndex(s, user, rnd) ==
    LET r == EncryptWithBlindIndex(s, user.email.s, rnd)
    IN  IF r.err # "" THEN [user |-> user, err |-> r.err]
        ELSE [user |-> [user EXCEPT !.email = r.encrypted], err |-> ""]

\* services.EncryptionService.EncryptUser(&user) on user.Email = email.
EncryptUser(s, user, rnd) ==
    LET r == EncryptWithBlindIndex(s, user.email.s, rnd)
    IN  IF r.err # "" THEN [user |-> user, err |-> r.err]
        ELSE [user |-> [user EXCEPT !.email = r.encrypted, !.bidx = r.blindIndex],
              err |-> ""]

\* EncryptUser of the release that kept the goal in the users table, with the
\* blind index assigned only after the goal has been encrypted.
EncryptUserWithGoalIndexLast(s, user, rnd, rndGoal) ==
    LET r == EncryptWithBlindIndex(s, user.email.s, rnd)
        withEmail == [user EXCEPT !.email = r.encrypted]
        g == Encrypt(s, user.goal.s, rndGoal)
    IN  IF r.err # "" THEN [user |-> user, err |-> r.err]
        ELSE IF user.goal # Null /\ user.goal # EmptyStr
        THEN IF g.err # "" THEN [user |-> withEmail, err |-> g.err]
             ELSE [user |-> [withEmail EXCEPT !.bidx = r.blindIndex, !.goal = g.val], err |-> ""]
        ELSE [user |-> [withEmail EXCEPT !.bidx = r.blindIndex], err |-> ""]

\* services.EncryptionService.EncryptUser(&user) of the release that kept the
\* goal in the users table: user.Email and user.EmailBlindIndex are assigned
\* before user.Goal is encrypted, with a nonce of its own.
EncryptUserWithGoal(s, user, rnd, rndGoal) ==
    LET r == EncryptWithBlindIndex(s, user.email.s, rnd)
        withEmail == [user EXCEPT !.email = r.encrypted, !.bidx = r.blindIndex]
        g == Encrypt(s, user.goal.s, rndGoal)
    IN  IF r.err # "" THEN [user |-> user, err |-> r.err]
        ELSE IF user.goal # Null /\ user.goal # EmptyStr
        THEN IF g.err # "" THEN [user |-> withEmail, err |-> g.err]
             ELSE [user |-> [withEmail EXCEPT !.goal = g.val], err |-> ""]
        ELSE [user |-> withEmail, err |-> ""]

\* services.EncryptionService.DecryptUser(&user).
DecryptUser(s, user) ==
    LET r == Decrypt(s, user.email)
    IN  IF r.err # "" THEN [user |-> user, err |-> r.err]
        ELSE [user |-> [user EXCEPT !.email = r.val], err |-> ""]

\* services.EncryptionService.EncryptGoal(&goal) on goal.Goal = a string.
EncryptGoal(s, goal, rnd) ==
    IF goal # Empty THEN Encrypt(s, goal, rnd) ELSE Ok(EmptyStr)

\* services.EncryptionService.DecryptGoal(&goal) on the stored column value.
DecryptGoal(s, goal) ==
    IF goal # EmptyStr THEN Decrypt(s, goal) ELSE Ok(EmptyStr)

\* services.EncryptionService.EncryptJournal(&journal) on journal.Topics.
EncryptJournal(s, topics, rnd) ==
    IF topics # Empty THEN Encrypt(s, topics, rnd) ELSE Ok(EmptyStr)

\* services.EncryptionService.DecryptJournal(&journal) on the stored column.
DecryptJournal(s, topics) ==
    IF topics # EmptyStr THEN Decrypt(s, topics) ELSE Ok(EmptyStr)

\* services.EncryptionService.GenerateEmailBlindIndex(email).
GenerateEmailBlindIndex(s, email) == GenerateBlindIndex(s, email)

\* bcrypt.GenerateFromPassword / CompareHashAndPassword.
Bcrypt(pw) == <<"bcrypt", pw>>
CompareHashAndPassword(hash, pw) == hash = Bcrypt(pw)

\* -------------------------------------------------------------------- state
VARIABLES
    env,      \* ENCRYPTION_KEY and BLIND_INDEX_KEY of the process environment
    phase,    \* position of main(): "init", "keysOK", "dbReady", "serving", "exited"
    schema,   \* database schema: "none", "legacy", "fresh", "upgraded"
    users,    \* users table: sequence of rows, the row's id is its index
    goals,    \* goals table: user id -> goals.goal, Null where the user has no row
    journal,  \* journal_entries table: <<user id, local_date>> -> row or NoEntry
    svc,      \* the server's long-lived EncryptionService
    resp,     \* the last HTTP response written
    faults,   \* failed reads of the entropy source so far
    mig,      \* the backfill migration job
    cx        \* one encrypt / alter / decrypt exchange on the crypto package alone

vars == <<env, phase, schema, users, goals, journal, svc, resp, faults, mig, cx>>
dbvars == <<schema, users, goals, journal>>
srvvars == <<env, phase, svc, resp>>

\* Input alphabets of the requests.
RawEmails == {<<"a">>, <<"A", " ">>, <<"b">>, <<" ">>}
Passwords == {"p", "q", ""}
SignupPasswords == {"p", ""}
TopicsIn == {Empty, <<"w">>}
GoalsIn == {Empty, <<"g">>}
RatingsIn == {0, 5}
Dates == {1}
\* local_date strings: 0 is the empty string, -1 does not parse as YYYY-MM-DD.
DatesIn == {0, -1} \cup Dates

UserIds == 1..Len(users)
\* The users whose sessions send the requests that write goals and entries.
Callers == {u \in UserIds : u <= MaxCallers}

NoEntry == [topics |-> Null, ar |-> 0, cr |-> 0, karma18 |-> 0]
Entry(topics, ar, cr, k) == [topics |-> topics, ar |-> ar, cr |-> cr, karma18 |-> k]

\* Rows written by the releases before encryption: the email in clear under
\* "email TEXT UNIQUE NOT NULL", no blind index column, the goal in users.goal.
LegacyUser(email, pw, goal) == User(Str(email), NoIdx, Bcrypt(pw), goal)

\* The body of the answer of the admin overview: none, or the two row counts.
NoStats == <<>>

NoResp ==
    [op |-> "", status |-> 0, uid |-> 0, email |-> Null, goal |-> Null,
     topics |-> <<>>, dec |-> {}, match |-> {}, isUpdate |-> FALSE,
     reqEmail |-> Empty, reqPw |-> "", stats |-> NoStats]

Reply(op, status, uid) == [NoResp EXCEPT !.op = op, !.status = status, !.uid = uid]

MigIdle ==
    [pc |-> "idle", dry |-> FALSE, svc |-> NoSvc, queue |-> <<>>, jqueue |-> <<>>,
     scanned |-> {}, migrated |-> 0, jmigrated |-> 0, skipped |-> 0, errors |-> 0,
     failed |-> {}, jfailed |-> {}, stopped |-> FALSE, runs |-> 0, clean |-> FALSE,
     verified |-> FALSE, vsvc |-> NoSvc, vsample |-> {}, vpass |-> 0, vfail |-> 0]

\* A call of a method of the service by one goroutine: its arguments, the
\* keys it has read from the instance, and what it returned.
NoResult == [val |-> EmptyStr, idx |-> EmptyIdx, err |-> ""]
IdleCall == [pc |-> "idle", op |-> "", arg |-> EmptyStr, rnd |-> 0, s |-> NoSvc, res |-> NoResult]

CxNew ==
    [stage |-> "new", key |-> KeyA, pt |-> Empty, enc |-> Ok(EmptyStr), blob |-> EmptyStr,
     alter |-> "none", dkey |-> KeyA, out |-> Ok(EmptyStr),
     rnd |-> 0, rnd2 |-> 0, again |-> Ok(EmptyStr),
     idxCalls |-> 0, ikey |-> KeyB, idx |-> EmptyIdx, idx2 |-> EmptyIdx,
     calls |-> [c \in 1..MaxCalls |-> IdleCall],
     user |-> User(EmptyStr, EmptyIdx, "", Null),
     userOut |-> [user |-> User(EmptyStr, EmptyIdx, "", Null), err |-> ""]]

EnvPairs ==
    {[ek |-> KeyA, bk |-> KeyB], [ek |-> NoKey, bk |-> KeyB], [ek |-> KeyShort, bk |-> KeyB],
     [ek |-> KeyA, bk |-> NoKey], [ek |-> KeyA, bk |-> KeyLong]}

\* The emails of the accounts of the earlier release, by row id.
LegacyEmail(u) == IF u = 1 THEN <<"a">> ELSE [i \in 1..(u - 1) |-> "b"]

\* The database the process is started against: none yet, or the tables an
\* earlier release left, with up to MaxUsers users (and the first one's data).
InitDB ==
    \/ /\ schema = "none"
       /\ users = <<>>
       /\ goals = [u \in 1..MaxUsers |-> Null]
       /\ journal = [k \in (1..MaxUsers) \X Dates |-> NoEntry]
    \/ /\ schema = "legacy"
       /\ \E g \in {Null, Str(<<"g">>)}, t \in {Null, Str(<<"w">>)}, n \in 0..MaxUsers :
            /\ users = [u \in 1..n |-> LegacyUser(LegacyEmail(u), "p", IF u = 1 THEN g ELSE Null)]
            /\ n = 0 => g = Null /\ t = Null
            /\ journal = [k \in (1..MaxUsers) \X Dates |->
                            IF n >= 1 /\ t # Null /\ k = <<1, 1>>
                            THEN Entry(t, 5, 5, 0) ELSE NoEntry]
       /\ goals = [u \in 1..MaxUsers |-> Null]

Init ==
    /\ env \in EnvPairs
    /\ phase = "init"
    /\ InitDB
    /\ svc = NoSvc
    /\ resp = NoResp
    /\ faults = 0
    /\ mig = MigIdle
    /\ cx = CxNew

\* --------------------------------------------------------------- main.go
\* main() checking ENCRYPTION_KEY only.
MainKeysOKEncryptionOnly(e) ==
    /\ e.ek.len # 0
    /\ e.ek.len = KeySize

\* main(): ENCRYPTION_KEY and BLIND_INDEX_KEY must be set and 32 bytes long.
MainKeysOK(e) ==
    /\ e.ek.len # 0
    /\ e.ek.len = KeySize
    /\ e.bk.len # 0
    /\ e.bk.len = KeySize

BootCheckKeys ==
    /\ phase = "init"
    /\ phase' = IF MainKeysOK(env) THEN "keysOK" ELSE "exited"
    /\ UNCHANGED <<env, dbvars, svc, resp, faults, mig, cx>>

\* db.RunMigrations: creates the tables where missing; on tables of an earlier
\* release adds email_blind_index (nullable, not unique), backfills karma, and
\* moves users.goal into the goals table before dropping the column.
RunMigrationsUsers(sc, us) ==
    IF sc = "legacy" THEN [u \in 1..Len(us) |-> [us[u] EXCEPT !.goal = Null]] ELSE us

RunMigrationsGoals(sc, us, gs) ==
    IF sc = "legacy"
    THEN [u \in 1..MaxUsers |->
            IF u <= Len(us) /\ us[u].goal # Null /\ gs[u] = Null THEN us[u].goal ELSE gs[u]]
    ELSE gs

RunMigrationsJournal(sc, js) ==
    IF sc = "legacy"
    THEN [k \in DOMAIN js |->
            IF js[k] = NoEntry THEN NoEntry
            ELSE [js[k] EXCEPT !.karma18 = js[k].ar + js[k].cr - 2]]
    ELSE js

RunMigrationsSchema(sc) ==
    IF sc = "none" THEN "fresh" ELSE IF sc = "legacy" THEN "upgraded" ELSE sc

BootRunMigrations ==
    /\ phase = "keysOK"
    /\ schema' = RunMigrationsSchema(schema)
    /\ users' = RunMigrationsUsers(schema, users)
    /\ goals' = RunMigrationsGoals(schema, users, goals)
    /\ journal' = RunMigrationsJournal(schema, journal)
    /\ phase' = "dbReady"
    /\ UNCHANGED <<env, svc, resp, faults, mig, cx>>

\* main(): the encryption service, then the handlers and the listener.
BootServe ==
    /\ phase = "dbReady"
    /\ svc' = NewEncryptionService(env.ek, env.bk)
    /\ phase' = IF svc'.ok THEN "serving" ELSE "exited"
    /\ UNCHANGED <<env, dbvars, resp, faults, mig, cx>>

\* A failed read of the entropy source is drawn at most MaxFaults times.
RndOK(rnd) == rnd # 0 \/ faults < MaxFaults
Drew(err) == IF err = "rand" THEN faults + 1 ELSE faults

\* ------------------------------------------------------------ auth handlers
\* The INSERT of Signup against the constraints of the schema in place:
\* a created schema has email_blind_index UNIQUE NOT NULL; an upgraded one
\* keeps the earlier UNIQUE on email and has no constraint on the new column.
InsertConflict(sc, us, row) ==
    IF sc = "fresh" THEN \E u \in 1..Len(us) : us[u].bidx = row.bidx
    ELSE \E u \in 1..Len(us) : us[u].email = row.email

\* AuthHandler.Signup
Signup(e, pw, rnd) ==
    /\ phase = "serving"
    /\ RndOK(rnd)
    /\ LET email == NormalizeEmail(e)
           enc == EncryptUser(svc, User(Str(email), EmptyIdx, "", Null), rnd)
           row == User(enc.user.email, enc.user.bidx, Bcrypt(pw), Null)
           dec == DecryptUser(svc, row)
       IN  IF email = Empty \/ pw = ""
           THEN resp' = Reply("signup", 400, 0) /\ UNCHANGED <<users, faults>>
           ELSE IF enc.err # ""
           THEN resp' = Reply("signup", 500, 0) /\ faults' = Drew(enc.err)
                /\ UNCHANGED users
           ELSE IF InsertConflict(schema, users, row)
           THEN resp' = Reply("signup", 400, 0) /\ UNCHANGED <<users, faults>>
           ELSE /\ Len(users) < MaxUsers
                /\ users' = Append(users, row)
                /\ resp' = IF dec.err # "" THEN Reply("signup", 500, 0)
                           ELSE [Reply("signup", 200, Len(users) + 1)
                                   EXCEPT !.email = dec.user.email,
                                          !.dec = {Len(users) + 1}]
                /\ UNCHANGED faults
    /\ UNCHANGED <<env, phase, schema, goals, journal, svc, mig, cx>>

\* The response of Login to the credentials (email as normalized, pw).
LoginReply(status, uid, email, pw) ==
    [Reply("login", status, uid) EXCEPT !.reqEmail = email, !.reqPw = pw]

\* AuthHandler.Login: db.Get takes the first row the query returns; with
\* several rows of one blind index the order is the database's choice.
Login(e, pw) ==
    /\ phase = "serving"
    /\ LET email == NormalizeEmail(e)
           emailBlindIndex == GenerateEmailBlindIndex(svc, email)
           matches == {u \in UserIds : users[u].bidx = emailBlindIndex}
       IN  IF email = Empty \/ pw = ""
           THEN resp' = LoginReply(400, 0, email, pw)
           ELSE IF matches = {}
           THEN resp' = LoginReply(401, 0, email, pw)
           ELSE \E u \in matches :
                  LET dec == DecryptUser(svc, users[u])
                  IN  resp' =
                        IF dec.err # ""
                        THEN [LoginReply(500, 0, email, pw) EXCEPT !.match = matches, !.dec = {u}]
                        ELSE IF ~CompareHashAndPassword(users[u].pw, pw)
                        THEN [LoginReply(401, 0, email, pw) EXCEPT !.match = matches, !.dec = {u}]
                        ELSE [LoginReply(200, u, email, pw)
                                EXCEPT !.match = matches, !.dec = {u},
                                       !.email = dec.user.email]
    /\ UNCHANGED <<env, phase, dbvars, svc, faults, mig, cx>>

\* ------------------------------------------------------------ user handlers
\* The profile read shared by GetMe and Dashboard.Get: the users row by id
\* (a NULL email_blind_index does not scan into a Go string), DecryptUser,
\* then the goals row, if any, and DecryptGoal. failFetch is the status of a
\* failed users query.
ReadProfile(op, uid, failFetch) ==
    LET row == users[uid]
        dec == DecryptUser(svc, row)
        g == DecryptGoal(svc, goals[uid])
    IN  IF row.bidx = NoIdx THEN Reply(op, failFetch, uid)
        ELSE IF dec.err # "" THEN [Reply(op, 500, uid) EXCEPT !.dec = {uid}]
        ELSE IF goals[uid] # Null /\ g.err # "" THEN [Reply(op, 500, uid) EXCEPT !.dec = {uid}]
        ELSE [Reply(op, 200, uid)
                EXCEPT !.email = dec.user.email, !.dec = {uid},
                       !.goal = IF goals[uid] # Null THEN g.val ELSE Null]

\* UserHandler.GetMe
GetMe(uid) ==
    /\ phase = "serving"
    /\ resp' = ReadProfile("getme", uid, 404)
    /\ UNCHANGED <<env, phase, dbvars, svc, faults, mig, cx>>

\* DashboardHandler.Get: the profile, then aggregates that read no sensitive column.
DashboardGet(uid) ==
    /\ phase = "serving"
    /\ resp' = ReadProfile("dashboard", uid, 500)
    /\ UNCHANGED <<env, phase, dbvars, svc, faults, mig, cx>>

\* The users columns of the body of UpdateMe: first_name (Null: absent) and
\* is_admin ("absent", "true" or "false").
NoFields == [firstName |-> Null, isAdmin |-> "absent"]

\* UPDATE users SET <the fields given> WHERE id = uid
SetUserFields(us, uid, f) ==
    IF uid \notin 1..Len(us) THEN us
    ELSE [us EXCEPT ![uid] =
            [@ EXCEPT !.firstName = IF f.firstName # Null THEN f.firstName ELSE @,
                      !.isAdmin = IF f.isAdmin = "absent" THEN @ ELSE f.isAdmin = "true"]]

\* UserHandler.UpdateMe: the users columns are updated first, in a statement
\* of its own; then the goal part: goal is Null when the body has no "goal";
\* dates is "none", "ok" or "bad" for the start_date / end_date given.
UpdateMe(uid, fields, goal, dates, rnd) ==
    /\ phase = "serving"
    /\ RndOK(rnd)
    /\ users' = SetUserFields(users, uid, fields)
    /\ LET hasGoalUpdate == goal # Null \/ dates # "none"
           enc == EncryptGoal(svc, goal.s, rnd)
       IN  IF hasGoalUpdate /\ dates = "bad"
           THEN resp' = Reply("updateme", 400, uid) /\ UNCHANGED <<goals, faults>>
           ELSE IF goal # Null /\ enc.err # ""
           THEN resp' = Reply("updateme", 500, uid) /\ faults' = Drew(enc.err)
                /\ UNCHANGED goals
           ELSE IF goal # Null
           THEN /\ goals' = [goals EXCEPT ![uid] = enc.val]
                /\ resp' = Reply("updateme", 204, uid)
                /\ UNCHANGED faults
           ELSE resp' = Reply("updateme", 204, uid) /\ UNCHANGED <<goals, faults>>
    /\ UNCHANGED <<env, phase, schema, journal, svc, mig, cx>>

\* mustBeAdmin answering for any row that exists.
mustBeAdminAnyone(uid) == uid \in UserIds

\* AdminHandler.mustBeAdmin: the stored is_admin, false when there is no row.
mustBeAdmin(uid) == uid \in UserIds /\ users[uid].isAdmin

\* AdminHandler.Overview: the counts of users and of journal entries.
Overview(uid) ==
    /\ phase = "serving"
    /\ resp' = IF ~mustBeAdmin(uid) THEN Reply("overview", 403, uid)
               ELSE [Reply("overview", 200, uid) EXCEPT !.stats =
                        <<Len(users), Cardinality({k \in DOMAIN journal : journal[k] # NoEntry})>>]
    /\ UNCHANGED <<env, phase, dbvars, svc, faults, mig, cx>>

\* --------------------------------------------------------- journal handlers
\* The validation without the upper limit of the ratings.
InvalidEntryNoUpperLimit(topics, ar, cr, d) ==
    topics = Empty \/ ar < 1 \/ cr < 1 \/ d = 0

\* The request validation shared by UpsertEntry and MigrateData.
InvalidEntry(topics, ar, cr, d) ==
    topics = Empty \/ ar < 1 \/ ar > 10 \/ cr < 1 \/ cr > 10 \/ d = 0

\* UpsertEntry with ON CONFLICT (user_id, local_date) DO NOTHING.
UpsertEntryKeepingExisting(uid, topics, ar, cr, d, rnd) ==
    /\ phase = "serving"
    /\ RndOK(rnd)
    /\ LET enc == EncryptJournal(svc, topics, rnd)
       IN  IF InvalidEntry(topics, ar, cr, d) \/ d \notin Dates
           THEN resp' = Reply("upsert", 400, uid) /\ UNCHANGED <<journal, faults>>
           ELSE IF enc.err # ""
           THEN resp' = Reply("upsert", 500, uid) /\ faults' = Drew(enc.err)
                /\ UNCHANGED journal
           ELSE /\ journal' = IF journal[<<uid, d>>] # NoEntry THEN journal
                               ELSE [journal EXCEPT ![<<uid, d>>] = Entry(enc.val, ar, cr, ar + cr - 2)]
                /\ resp' = [Reply("upsert", 200, uid)
                              EXCEPT !.isUpdate = journal[<<uid, d>>] # NoEntry]
                /\ UNCHANGED faults
    /\ UNCHANGED <<env, phase, schema, users, goals, svc, mig, cx>>

\* JournalHandler.UpsertEntry; karma is kept as its numerator over 18.
UpsertEntry(uid, topics, ar, cr, d, rnd) ==
    /\ phase = "serving"
    /\ RndOK(rnd)
    /\ LET enc == EncryptJournal(svc, topics, rnd)
       IN  IF InvalidEntry(topics, ar, cr, d) \/ d \notin Dates
           THEN resp' = Reply("upsert", 400, uid) /\ UNCHANGED <<journal, faults>>
           ELSE IF enc.err # ""
           THEN resp' = Reply("upsert", 500, uid) /\ faults' = Drew(enc.err)
                /\ UNCHANGED journal
           ELSE /\ journal' = [journal EXCEPT ![<<uid, d>>] = Entry(enc.val, ar, cr, ar + cr - 2)]
                /\ resp' = [Reply("upsert", 200, uid)
                              EXCEPT !.isUpdate = journal[<<uid, d>>] # NoEntry]
                /\ UNCHANGED faults
    /\ UNCHANGED <<env, phase, schema, users, goals, svc, mig, cx>>

\* JournalHandler.Delete
Delete(uid, d) ==
    /\ phase = "serving"
    /\ IF d \notin Dates
       THEN resp' = Reply("delete", 400, uid) /\ UNCHANGED journal
       ELSE IF journal[<<uid, d>>] = NoEntry
       THEN resp' = Reply("delete", 404, uid) /\ UNCHANGED journal
       ELSE /\ journal' = [journal EXCEPT ![<<uid, d>>] = NoEntry]
            /\ resp' = Reply("delete", 204, uid)
    /\ UNCHANGED <<env, phase, schema, users, goals, svc, faults, mig, cx>>

\* The rows.Next() loop of List over the dates ds, newest first: a row whose
\* DecryptJournal fails is skipped ("continue"), the others are appended.
RECURSIVE ListRows(_, _, _, _)
ListRows(s, js, uid, ds) ==
    IF ds = {} THEN <<>>
    ELSE LET d == CHOOSE x \in ds : \A y \in ds : y <= x
             rest == ListRows(s, js, uid, ds \ {d})
             r == DecryptJournal(s, js[<<uid, d>>].topics)
         IN  IF js[<<uid, d>>] = NoEntry THEN rest
             ELSE IF r.err # "" THEN rest
             ELSE <<r.val>> \o rest

\* List without its WHERE user_id = uid.
ListEveryone(uid) ==
    /\ phase = "serving"
    /\ resp' = [Reply("list", 200, uid) EXCEPT !.topics =
                    ListRows(svc, journal, 1, Dates) \o ListRows(svc, journal, MaxUsers, Dates)]
    /\ UNCHANGED <<env, phase, dbvars, svc, faults, mig, cx>>

\* JournalHandler.List
List(uid) ==
    /\ phase = "serving"
    /\ resp' = [Reply("list", 200, uid) EXCEPT !.topics = ListRows(svc, journal, uid, Dates)]
    /\ UNCHANGED <<env, phase, dbvars, svc, faults, mig, cx>>

\* The entries loop passing over an entry that does not validate.
RECURSIVE MigrateEntriesSkippingInvalid(_, _, _, _, _)
MigrateEntriesSkippingInvalid(s, js, uid, entries, rnds) ==
    IF entries = <<>> THEN [js |-> js, status |-> 201, err |-> ""]
    ELSE LET e == Head(entries)
             enc == EncryptJournal(s, e.topics, Head(rnds))
             old == js[<<uid, e.d>>]
         IN  IF InvalidEntry(e.topics, e.ar, e.cr, e.d) \/ e.d \notin Dates
             THEN MigrateEntriesSkippingInvalid(s, js, uid, Tail(entries), Tail(rnds))
             ELSE IF enc.err # "" THEN [js |-> js, status |-> 500, err |-> enc.err]
             ELSE MigrateEntriesSkippingInvalid(s,
                    [js EXCEPT ![<<uid, e.d>>] = Entry(enc.val, e.ar, e.cr, old.karma18)],
                    uid, Tail(entries), Tail(rnds))

\* The entries loop of MigrateData inside its transaction: the journal after
\* the entries, or the status of the first entry that fails.
RECURSIVE MigrateEntries(_, _, _, _, _)
MigrateEntries(s, js, uid, entries, rnds) ==
    IF entries = <<>> THEN [js |-> js, status |-> 201, err |-> ""]
    ELSE LET e == Head(entries)
             enc == EncryptJournal(s, e.topics, Head(rnds))
             old == js[<<uid, e.d>>]
         IN  IF InvalidEntry(e.topics, e.ar, e.cr, e.d) \/ e.d \notin Dates
             THEN [js |-> js, status |-> 400, err |-> ""]
             ELSE IF enc.err # "" THEN [js |-> js, status |-> 500, err |-> enc.err]
             ELSE MigrateEntries(s,
                    [js EXCEPT ![<<uid, e.d>>] = Entry(enc.val, e.ar, e.cr, old.karma18)],
                    uid, Tail(entries), Tail(rnds))

NoProfile == [present |-> FALSE, goal |-> Null, dates |-> "none"]

\* The first_name of the profile of a MigrateRequest, Null when it has none.
ProfileFirstName(profile) ==
    IF profile.present /\ "firstName" \in DOMAIN profile THEN profile.firstName ELSE Null

\* MigrateHandler.MigrateData: the profile's goal, then the entries, in one
\* transaction that is committed only when every step succeeded.
MigrateData(uid, profile, entries, rndG, rnds) ==
    /\ phase = "serving"
    /\ RndOK(rndG)
    /\ \A i \in 1..Len(rnds) : RndOK(rnds[i])
    /\ LET hasGoal == profile.present /\ profile.goal # Null /\ profile.goal # EmptyStr
           fields == [NoFields EXCEPT !.firstName = ProfileFirstName(profile)]
           enc == EncryptGoal(svc, profile.goal.s, rndG)
           r == MigrateEntries(svc, journal, uid, entries, rnds)
       IN  IF entries = <<>> /\ ~profile.present
           THEN resp' = Reply("migrate", 400, uid) /\ UNCHANGED <<users, goals, journal, faults>>
           ELSE IF hasGoal /\ profile.dates = "bad"
           THEN resp' = Reply("migrate", 400, uid) /\ UNCHANGED <<users, goals, journal, faults>>
           ELSE IF hasGoal /\ enc.err # ""
           THEN resp' = Reply("migrate", 500, uid) /\ faults' = Drew(enc.err)
                /\ UNCHANGED <<users, goals, journal>>
           ELSE IF r.status # 201
           THEN resp' = Reply("migrate", r.status, uid) /\ faults' = Drew(r.err)
                /\ UNCHANGED <<users, goals, journal>>
           ELSE /\ users' = SetUserFields(users, uid, fields)
                /\ goals' = IF hasGoal THEN [goals EXCEPT ![uid] = enc.val] ELSE goals
                /\ journal' = r.js
                /\ resp' = Reply("migrate", 201, uid)
                /\ UNCHANGED faults
    /\ UNCHANGED <<env, phase, schema, svc, mig, cx>>

\* ------------------------------------------------------------ server system
\* Request bodies: a goal (Null: the field is absent), the dates sent with it,
\* and journal entries: one valid, and one for each way of being rejected.
GoalArgs == {Null} \cup {Str(g) : g \in GoalsIn}
DateArgs == {"none", "ok", "bad"}
ProfilesIn ==
    {NoProfile, [present |-> TRUE, goal |-> Null, dates |-> "none"],
     [present |-> TRUE, goal |-> EmptyStr, dates |-> "bad"],
     [present |-> TRUE, goal |-> Str(<<"g">>), dates |-> "ok"],
     [present |-> TRUE, goal |-> Str(<<"g">>), dates |-> "bad"]}
EntryIn(t, a, c, d) == [topics |-> t, ar |-> a, cr |-> c, d |-> d]
EntryArgs ==
    {EntryIn(<<"w">>, 5, 5, 1), EntryIn(Empty, 5, 5, 1), EntryIn(<<"w">>, 0, 5, 1),
     EntryIn(<<"w">>, 5, 5, 0), EntryIn(<<"w">>, 5, 5, -1), EntryIn(<<"w">>, 5, 11, 1)}
EntriesIn == {<<>>} \cup {<<e>> : e \in EntryArgs}

Boot == BootCheckKeys \/ BootRunMigrations \/ BootServe

DoSignup == \E e \in RawEmails, pw \in SignupPasswords, rnd \in Rnd : Signup(e, pw, rnd)
DoLogin == \E e \in RawEmails, pw \in Passwords : Login(e, pw)
DoGetMe == \E uid \in UserIds : GetMe(uid)
DoDashboardGet == \E uid \in UserIds : DashboardGet(uid)
DoUpdateMe ==
    \E uid \in Callers, g \in GoalArgs, ds \in DateArgs, rnd \in Rnd :
        UpdateMe(uid, NoFields, g, ds, rnd)
DoUpsertEntry ==
    \E uid \in Callers, e \in EntryArgs, rnd \in Rnd :
        UpsertEntry(uid, e.topics, e.ar, e.cr, e.d, rnd)
DoDelete == \E uid \in Callers, d \in DatesIn : Delete(uid, d)
DoList == \E uid \in UserIds : List(uid)
DoMigrateData ==
    \E uid \in Callers, pr \in ProfilesIn, es \in EntriesIn, rnd \in Rnd :
        MigrateData(uid, pr, es, rnd, [i \in 1..Len(es) |-> rnd])

\* The whole server: start-up, then any request at any time.
Next ==
    \/ BootCheckKeys
    \/ BootRunMigrations
    \/ BootServe
    \/ DoSignup
    \/ DoLogin
    \/ DoGetMe
    \/ DoDashboardGet
    \/ DoUpdateMe
    \/ DoUpsertEntry
    \/ DoDelete
    \/ DoList
    \/ DoMigrateData

Spec == Init /\ [][Next]_vars

\* The server restricted to the requests that write sensitive columns.
NextWrite ==
    \/ BootCheckKeys
    \/ BootRunMigrations
    \/ BootServe
    \/ DoSignup
    \/ DoUpdateMe
    \/ DoUpsertEntry
    \/ DoDelete
    \/ DoMigrateData

SpecWrite == Init /\ [][NextWrite]_vars

\* The server restricted to sign-up, journal writes and the requests that
\* read (decrypt) sensitive columns.
NextRead ==
    \/ BootCheckKeys
    \/ BootRunMigrations
    \/ BootServe
    \/ DoSignup
    \/ DoLogin
    \/ DoGetMe
    \/ DoDashboardGet
    \/ DoUpsertEntry
    \/ DoList

SpecRead == Init /\ [][NextRead]_vars

\* ------------------------------------------------- the crypto package alone
\* One exchange: a service built on key encrypts pt, the stored text is
\* possibly altered, and a service built on dkey decrypts what it is given.
Plaintexts == {Empty, <<"a">>, <<"a", "b">>}
Alterations == {"nonce", "body", "tag", "slack", "cut", "stub", "junk"}

CxService(key) == NewEncryptionService(key, KeyB)

CxEncrypt(key, pt, rnd) ==
    /\ cx.stage = "new"
    /\ LET e == Encrypt(CxService(key), pt, rnd)
       IN  cx' = [cx EXCEPT !.stage = "enc", !.key = key, !.pt = pt, !.rnd = rnd,
                            !.enc = e, !.blob = e.val]
    /\ UNCHANGED <<env, phase, dbvars, svc, resp, faults, mig>>

\* The same service encrypts the same plaintext a second time.
CxEncryptAgain(rnd) ==
    /\ cx.stage = "enc"
    /\ cx.enc.err = ""
    /\ cx' = [cx EXCEPT !.stage = "again", !.rnd2 = rnd,
                        !.again = Encrypt(CxService(cx.key), cx.pt, rnd)]
    /\ UNCHANGED <<env, phase, dbvars, svc, resp, faults, mig>>

\* The text after the alteration: another nonce, another byte of the sealed
\* body, another tag, other unused trailing bits in the last base64 character
\* (there are some unless the byte count is a multiple of 3), the text cut to
\* its first four characters (three bytes) or to sixteen (the twelve bytes
\* of a nonce and nothing after), or a character outside the base64 alphabet.
Altered(t, how) ==
    IF how = "nonce" THEN [t EXCEPT !.nonce = t.nonce + 1]
    ELSE IF how = "body" THEN [t EXCEPT !.body.pt = <<"z">> \o Tail(t.body.pt)]
    ELSE IF how = "tag" THEN [t EXCEPT !.tag.nonce = t.tag.nonce + 1]
    ELSE IF how = "slack" THEN [t EXCEPT !.slack = 1]
    ELSE IF how = "cut" THEN Str(<<"a", "a", "a", "a">>)
    ELSE IF how = "stub" THEN Str([i \in 1..16 |-> "a"])
    ELSE Str(<<"?">>)

CxTamper(how) ==
    /\ cx.stage = "enc"
    /\ cx.enc.err = ""
    /\ cx.blob.kind = "b64"
    /\ how = "slack" => BlobLen(cx.pt) % 3 # 0
    /\ cx' = [cx EXCEPT !.stage = "altered", !.alter = how, !.blob = Altered(cx.blob, how)]
    /\ UNCHANGED <<env, phase, dbvars, svc, resp, faults, mig>>

CxDecrypt(dkey) ==
    /\ cx.stage \in {"enc", "altered"}
    /\ cx.enc.err = ""
    /\ cx' = [cx EXCEPT !.stage = "dec", !.dkey = dkey,
                        !.out = Decrypt(CxService(dkey), cx.blob)]
    /\ UNCHANGED <<env, phase, dbvars, svc, resp, faults, mig>>

\* A service with the index key ikey computes the blind index of the
\* plaintext, and later, after the other calls of the exchange, a service
\* with the same index key and any encryption key computes it again.
CxBlindIndex(ikey) ==
    /\ cx.stage = "enc"
    /\ cx.idxCalls = 0
    /\ cx' = [cx EXCEPT !.idxCalls = 1, !.ikey = ikey,
                        !.idx = GenerateBlindIndex(NewEncryptionService(cx.key, ikey), cx.pt)]
    /\ UNCHANGED <<env, phase, dbvars, svc, resp, faults, mig>>

CxBlindIndexAgain(ekey) ==
    /\ cx.stage \in {"again", "altered", "dec"}
    /\ cx.idxCalls = 1
    /\ cx' = [cx EXCEPT !.idxCalls = 2,
                        !.idx2 = GenerateBlindIndex(NewEncryptionService(ekey, cx.ikey), cx.pt)]
    /\ UNCHANGED <<env, phase, dbvars, svc, resp, faults, mig>>

NextCrypto ==
    \/ \E key \in GoodKeys, pt \in Plaintexts, rnd \in Rnd : CxEncrypt(key, pt, rnd)
    \/ \E rnd \in Rnd : CxEncryptAgain(rnd)
    \/ \E ikey \in GoodKeys : CxBlindIndex(ikey)
    \/ \E ekey \in GoodKeys : CxBlindIndexAgain(ekey)
    \/ \E how \in Alterations : CxTamper(how)
    \/ \E dkey \in GoodKeys : CxDecrypt(dkey)

SpecCrypto == Init /\ [][NextCrypto]_vars

\* ------------------------------------------------------ backfill migration
\* The migration job (scripts/migrate_to_encryption.py), one run at a time:
\* users with an unset blind index, then every journal entry; each row in a
\* transaction of its own.

\* Scan(): the ids of the users whose email_blind_index is unset, in id order.
RECURSIVE ScanFrom(_, _)
ScanFrom(us, u) ==
    IF u > Len(us) THEN <<>>
    ELSE IF us[u].bidx = NoIdx THEN <<u>> \o ScanFrom(us, u + 1)
    ELSE ScanFrom(us, u + 1)

Scan(us) == ScanFrom(us, 1)

\* The journal pass fetches every entry, in key order.
RECURSIVE ScanJournalFrom(_, _, _)
ScanJournalFrom(js, u, ds) ==
    IF u > MaxUsers THEN <<>>
    ELSE IF ds = {} THEN ScanJournalFrom(js, u + 1, Dates)
    ELSE LET d == CHOOSE x \in ds : \A y \in ds : x <= y
         IN  (IF js[<<u, d>>] # NoEntry THEN <<(<<u, d>>)>> ELSE <<>>)
                \o ScanJournalFrom(js, u, ds \ {d})

ScanJournal(js) == ScanJournalFrom(js, 1, Dates)

\* The job starts: keys from the environment, then the scan of the users.
MigStart(dry) ==
    /\ mig.pc \in {"idle", "done"}
    /\ mig.runs < MaxRuns
    /\ schema \in {"fresh", "upgraded"}
    /\ NewEncryptionService(env.ek, env.bk).ok
    /\ mig' = [MigIdle EXCEPT !.pc = "users", !.dry = dry,
                              !.svc = NewEncryptionService(env.ek, env.bk),
                              !.queue = Scan(users), !.scanned = {u \in UserIds : users[u].bidx = NoIdx},
                              !.runs = mig.runs, !.clean = mig.clean]
    /\ UNCHANGED <<env, phase, dbvars, svc, resp, faults, cx>>

\* MigrateRow on a users row: already encrypted rows are skipped; otherwise
\* email, its blind index and the goal column (where still present) are
\* computed and written together, or nothing is written.
MigrateUserRow(s, row, rnd) ==
    LET r == EncryptWithBlindIndex(s, row.email.s, rnd)
        g == IF row.goal = Null THEN Ok(Null) ELSE Encrypt(s, row.goal.s, rnd)
    IN  IF row.bidx # NoIdx THEN [row |-> row, res |-> "skipped"]
        ELSE IF r.err # "" THEN [row |-> row, res |-> r.err]
        ELSE IF g.err # "" THEN [row |-> row, res |-> g.err]
        ELSE [row |-> [row EXCEPT !.email = r.encrypted, !.bidx = r.blindIndex, !.goal = g.val],
              res |-> "migrated"]

\* The users step writing the row whether or not the run is a dry run.
MigUserRowIgnoringDryRun(rnd) ==
    /\ mig.pc = "users"
    /\ mig.queue # <<>>
    /\ RndOK(rnd)
    /\ LET u == Head(mig.queue)
           m == MigrateUserRow(mig.svc, users[u], rnd)
           rest == [mig EXCEPT !.queue = Tail(mig.queue)]
       IN  /\ users' = IF m.res = "migrated" THEN [users EXCEPT ![u] = m.row] ELSE users
           /\ mig' = IF m.res = "migrated" THEN [rest EXCEPT !.migrated = mig.migrated + 1]
                     ELSE IF m.res = "skipped" THEN [rest EXCEPT !.skipped = mig.skipped + 1]
                     ELSE [rest EXCEPT !.errors = mig.errors + 1, !.failed = mig.failed \cup {u}]
           /\ faults' = Drew(m.res)
    /\ UNCHANGED <<env, phase, schema, goals, journal, svc, resp, cx>>

MigUserRow(rnd) ==
    /\ mig.pc = "users"
    /\ mig.queue # <<>>
    /\ RndOK(rnd)
    /\ LET u == Head(mig.queue)
           m == MigrateUserRow(mig.svc, users[u], rnd)
           rest == [mig EXCEPT !.queue = Tail(mig.queue)]
       IN  /\ users' = IF m.res = "migrated" /\ ~mig.dry THEN [users EXCEPT ![u] = m.row] ELSE users
           /\ mig' = IF m.res = "migrated" THEN [rest EXCEPT !.migrated = mig.migrated + 1]
                     ELSE IF m.res = "skipped" THEN [rest EXCEPT !.skipped = mig.skipped + 1]
                     ELSE [rest EXCEPT !.errors = mig.errors + 1, !.failed = mig.failed \cup {u}]
           /\ faults' = Drew(m.res)
    /\ UNCHANGED <<env, phase, schema, goals, journal, svc, resp, cx>>

\* The users pass is over: the journal entries are fetched.
MigUsersDone ==
    /\ mig.pc = "users"
    /\ mig.queue = <<>>
    /\ mig' = [mig EXCEPT !.pc = "journal", !.jqueue = ScanJournal(journal)]
    /\ UNCHANGED <<env, phase, dbvars, svc, resp, faults, cx>>

\* MigrateRow on a journal entry: empty topics and topics that already
\* decrypt under the key are skipped, the others are encrypted.
MigrateJournalRow(s, entry, rnd) ==
    LET e == Encrypt(s, entry.topics.s, rnd)
    IN  IF entry = NoEntry \/ entry.topics = EmptyStr THEN [entry |-> entry, res |-> "skipped"]
        ELSE IF Decrypt(s, entry.topics).err = "" THEN [entry |-> entry, res |-> "skipped"]
        ELSE IF e.err # "" THEN [entry |-> entry, res |-> e.err]
        ELSE [entry |-> [entry EXCEPT !.topics = e.val], res |-> "migrated"]

MigJournalRow(rnd) ==
    /\ mig.pc = "journal"
    /\ mig.jqueue # <<>>
    /\ RndOK(rnd)
    /\ LET k == Head(mig.jqueue)
           m == MigrateJournalRow(mig.svc, journal[k], rnd)
           rest == [mig EXCEPT !.jqueue = Tail(mig.jqueue)]
       IN  /\ journal' = IF m.res = "migrated" /\ ~mig.dry
                         THEN [journal EXCEPT ![k] = m.entry] ELSE journal
           /\ mig' = IF m.res = "migrated" THEN [rest EXCEPT !.jmigrated = mig.jmigrated + 1]
                     ELSE IF m.res = "skipped" THEN [rest EXCEPT !.skipped = mig.skipped + 1]
                     ELSE [rest EXCEPT !.errors = mig.errors + 1, !.jfailed = mig.jfailed \cup {k}]
           /\ faults' = Drew(m.res)
    /\ UNCHANGED <<env, phase, schema, users, goals, svc, resp, cx>>

\* The run ends with its summary; a live run without errors leaves nothing to do.
MigJournalDone ==
    /\ mig.pc = "journal"
    /\ mig.jqueue = <<>>
    /\ mig' = [mig EXCEPT !.pc = "done", !.runs = mig.runs + 1,
                          !.clean = mig.clean \/ (~mig.dry /\ mig.errors = 0)]
    /\ UNCHANGED <<env, phase, dbvars, svc, resp, faults, cx>>

\* The operator stops the job between two rows.
MigStop ==
    /\ mig.pc \in {"users", "journal"}
    /\ mig' = [mig EXCEPT !.pc = "done", !.stopped = TRUE, !.runs = mig.runs + 1,
                          !.queue = <<>>, !.jqueue = <<>>]
    /\ UNCHANGED <<env, phase, dbvars, svc, resp, faults, cx>>

\* Verify(sampleSize), after a run: a sample of the users rows that have a
\* blind index is read again; a row passes when its email decrypts and the
\* blind index of the decrypted email is the stored one. The keys are those
\* of the environment the verification runs in.
SampleSizes == {1, 2}

VerifyRow(s, row) ==
    LET d == Decrypt(s, row.email)
    IN  d.err = "" /\ GenerateBlindIndex(s, d.val.s) = row.bidx

MigVerify(sampleSize, sample, ek, bk) ==
    /\ mig.pc = "done"
    /\ ~mig.verified
    /\ NewEncryptionService(ek, bk).ok
    /\ LET s == NewEncryptionService(ek, bk)
           migrated == {u \in UserIds : users[u].bidx # NoIdx}
           passed == {u \in sample : VerifyRow(s, users[u])}
       IN  /\ sample \subseteq migrated
           /\ Cardinality(sample) =
                  IF Cardinality(migrated) < sampleSize THEN Cardinality(migrated) ELSE sampleSize
           /\ mig' = [mig EXCEPT !.verified = TRUE, !.vsvc = s, !.vsample = sample,
                                 !.vpass = Cardinality(passed),
                                 !.vfail = Cardinality(sample \ passed)]
    /\ UNCHANGED <<env, phase, dbvars, svc, resp, faults, cx>>

\* The migration beside a server that takes sign-ups.
NextBackfill ==
    \/ BootCheckKeys
    \/ BootRunMigrations
    \/ BootServe
    \/ DoSignup
    \/ \E dry \in BOOLEAN : MigStart(dry)
    \/ \E rnd \in Rnd : MigUserRow(rnd)
    \/ MigUsersDone
    \/ \E rnd \in Rnd : MigJournalRow(rnd)
    \/ MigJournalDone
    \/ MigStop

SpecBackfill == Init /\ [][NextBackfill]_vars

\* ---------------------------------------------------------------- C2, C3
\* C2: for every string s, the empty one included, and every valid key,
\* Decrypt(Encrypt(s)) returns s without error; Encrypt of the empty string is
\* the empty string and Decrypt of the empty string is the empty string.
C2_RoundTrip ==
    /\ (cx.stage = "dec" /\ cx.alter = "none" /\ cx.dkey = cx.key)
          => cx.out = Ok(Str(cx.pt))
    /\ (cx.stage # "new" /\ cx.pt = Empty) => cx.enc = Ok(EmptyStr)
    /\ (cx.stage = "dec" /\ cx.blob = EmptyStr) => cx.out = Ok(EmptyStr)

C2_Witness ==
    /\ cx.stage = "dec" /\ cx.alter = "none" /\ cx.dkey = cx.key
    /\ Len(cx.pt) = 2
    /\ cx.blob.kind = "b64"
    /\ cx.out = Ok(Str(cx.pt))

\* C3 as stated: Decrypt returns a plaintext only if the text it is given is
\* exactly the text Encrypt produced and the key is the key that produced it.
C3_ExactBlobSameKey ==
    (cx.stage = "dec" /\ cx.out.err = "") => (cx.blob = cx.enc.val /\ cx.dkey = cx.key)

\* C3, amended: Decrypt returns a plaintext only if the text decodes to exactly
\* the bytes Encrypt produced for that plaintext under the same key, or the
\* text is empty and so is the plaintext; a text with any decoded byte of a
\* non-empty blob changed, a text that does not decode, and a non-empty blob
\* produced under another 32-byte key all fail.
C3_Authenticated ==
    /\ (cx.stage = "dec" /\ cx.out.err = "") =>
          /\ cx.out.val = Str(cx.pt)
          /\ cx.pt = Empty => cx.blob = EmptyStr
          /\ cx.pt # Empty => (cx.dkey = cx.key /\ [cx.blob EXCEPT !.slack = 0] = cx.enc.val)
    /\ (cx.stage = "dec" /\ cx.pt # Empty
          /\ (cx.alter \in {"nonce", "body", "tag", "cut", "junk"} \/ cx.dkey # cx.key))
          => (cx.out.err # "" /\ cx.out.val = EmptyStr)

C3_Witness ==
    /\ cx.stage = "dec"
    /\ cx.alter = "body"
    /\ cx.dkey = cx.key
    /\ cx.out = Fail("auth")

\* ------------------------------------------------------------ C4, C5, C6
\* A stored value that is a Ciphertext, empty, or (where the column allows it) NULL.
IsCiphertextOrEmpty(v) == v.kind = "b64" \/ v = EmptyStr \/ v = Null

\* C4: after any sequence of write operations (Signup, UpsertEntry, UpdateMe
\* with a goal, MigrateData, and the schema migration that moves the goals out
\* of the users table), every persisted users.email, goals.goal and
\* journal_entries.topics is a Ciphertext or empty, never plaintext.
C4_StoredEncrypted ==
    phase \in {"dbReady", "serving"} =>
        /\ \A u \in 1..MaxUsers : IsCiphertextOrEmpty(goals[u])
        /\ \A u \in UserIds : IsCiphertextOrEmpty(users[u].email)
        /\ \A k \in DOMAIN journal : IsCiphertextOrEmpty(journal[k].topics)

\* The rows a Signup with credentials (email, pw) has written.
SignedUp(email, pw) ==
    {u \in UserIds : /\ users[u].bidx # NoIdx
                     /\ Decrypt(svc, users[u].email) = Ok(Str(email))
                     /\ users[u].pw = Bcrypt(pw)}

\* C5: after Signup(e, p) succeeded, Login(e', p) with the same normalized
\* email selects the row by email_blind_index = BlindIndexOf(normalize(e')),
\* authenticates that same user, and decrypts no row but the one matched.
C5_LoginFindsSignup ==
    (resp.op = "login" /\ resp.reqEmail # Empty /\ resp.reqPw # "") =>
        /\ \A u \in SignedUp(resp.reqEmail, resp.reqPw) : resp.status = 200 /\ resp.uid = u
        /\ resp.dec \subseteq
              {u \in UserIds : users[u].bidx = GenerateBlindIndex(svc, resp.reqEmail)}
        /\ resp.status = 200 => resp.dec = {resp.uid}

\* The stored fields a read for user uid decrypts, each with Decrypt's verdict.
ProfileDecryptFails(uid) ==
    \/ DecryptUser(svc, users[uid]).err # ""
    \/ goals[uid] # Null /\ DecryptGoal(svc, goals[uid]).err # ""

JournalDecryptFails(uid) ==
    \E d \in Dates : /\ journal[<<uid, d>>] # NoEntry
                     /\ DecryptJournal(svc, journal[<<uid, d>>].topics).err # ""

\* C6: every read path that decrypts stored fields (Login, GetMe,
\* Dashboard.Get, journal List) answers with an error when a field fails to
\* decrypt: no row is silently left out and no plaintext is substituted.
C6_DecryptErrorAborts ==
    /\ (resp.op = "list" /\ JournalDecryptFails(resp.uid)) => resp.status >= 400
    /\ (resp.op \in {"getme", "dashboard"} /\ ProfileDecryptFails(resp.uid)) => resp.status >= 400
    /\ (resp.op = "login" /\ \E u \in resp.dec : DecryptUser(svc, users[u]).err # "")
          => resp.status >= 400

\* ------------------------------------------------------- C1, C7, C8, C9, C10
\* The service every process builds from the environment's two keys.
KeyedSvc == NewEncryptionService(env.ek, env.bk)

\* The row's blind index is the index of the plaintext its email decrypts to.
IndexMatchesEmail(row) ==
    LET d == Decrypt(KeyedSvc, row.email)
    IN  /\ row.email.kind = "b64"
        /\ d.err = ""
        /\ d.val # EmptyStr
        /\ row.bidx = GenerateBlindIndex(KeyedSvc, d.val.s)
        /\ row.bidx \notin {NoIdx, EmptyIdx}

\* C1 as stated: after the schema upgrade, Signup and the backfill migration,
\* every persisted user row has email_blind_index = BlindIndexOf(Decrypt(email));
\* the index is never unset.
C1_IndexNeverUnset ==
    schema \in {"fresh", "upgraded"} => \A u \in UserIds : IndexMatchesEmail(users[u])

\* C1, amended: every persisted user row whose email_blind_index is set has
\* email_blind_index = BlindIndexOf(Decrypt(email)); the index is unset only on
\* rows of an upgraded schema that the backfill migration has not yet
\* migrated, and never on a row written by Signup or by the migration.
C1_IndexMatchesWhenSet ==
    \A u \in UserIds :
        /\ users[u].bidx # NoIdx => IndexMatchesEmail(users[u])
        /\ users[u].bidx = NoIdx =>
              /\ schema \in {"legacy", "upgraded"}
              /\ users[u].email = Str(LegacyEmail(u))
              /\ ~(mig.pc = "done" /\ ~mig.dry /\ ~mig.stopped /\ mig.errors = 0)

C1_Witness ==
    /\ Len(users) = 2
    /\ mig.pc = "done" /\ ~mig.dry /\ mig.migrated = 1
    /\ resp.op = "signup" /\ resp.status = 200 /\ resp.uid = 2
    /\ \A u \in UserIds : IndexMatchesEmail(users[u])

\* C7: key material is validated before any traffic is served: with
\* ENCRYPTION_KEY or BLIND_INDEX_KEY missing or not 32 bytes long the process
\* exits, no handler is constructed or invoked, and an EncryptionService
\* exists only with both keys of length 32.
C7_KeysValidatedBeforeServing ==
    /\ phase \in {"keysOK", "dbReady", "serving"} => (env.ek.len = 32 /\ env.bk.len = 32)
    /\ svc.ok => (svc.ek.len = 32 /\ svc.bk.len = 32 /\ svc.ek = env.ek /\ svc.bk = env.bk)
    /\ phase = "serving" => svc.ok
    /\ resp # NoResp => phase = "serving"
    /\ (env.ek.len # 32 \/ env.bk.len # 32) =>
          (phase \in {"init", "exited"} /\ svc = NoSvc /\ resp = NoResp)

C7_Witness ==
    /\ phase = "exited"
    /\ env.ek.len = 32
    /\ env.bk.len = 33
    /\ svc = NoSvc

\* C8: a live run of the migration over a dataset that an earlier live run
\* has fully migrated changes no users row and no journal entry, and counts 0
\* migrated rows.
C8_SecondRunChangesNothing ==
    [][(mig.clean /\ mig.pc \in {"users", "journal"} /\ ~mig.dry /\ mig' # mig) =>
          (users' = users /\ journal' = journal /\ mig'.migrated = 0 /\ mig'.jmigrated = 0)]_vars

C8_Witness ==
    /\ mig.clean /\ ~mig.dry /\ ~mig.stopped
    /\ mig.pc = "done" /\ mig.runs = 2
    /\ mig.migrated = 0 /\ mig.jmigrated = 0 /\ mig.skipped = 1
    /\ users # <<>> /\ users[1].pw = Bcrypt("p") /\ IndexMatchesEmail(users[1])
    /\ journal[<<1, 1>>].topics.kind = "b64"

JournalDone(k) == journal[k] = NoEntry \/ journal[k].topics.kind = "b64" \/ journal[k].topics = EmptyStr

\* C10: in a live run where exactly one row fails, every other candidate row
\* is migrated and committed, and the summary reports one error and all the
\* other candidates as migrated: a row's error neither stops the batch nor
\* undoes rows already migrated.
C10_OneFailureIsolated ==
    (mig.pc = "done" /\ ~mig.dry /\ ~mig.stopped) =>
        /\ mig.errors = Cardinality(mig.failed) + Cardinality(mig.jfailed)
        /\ mig.migrated = Cardinality(mig.scanned \ mig.failed)
        /\ \A u \in mig.scanned \ mig.failed : IndexMatchesEmail(users[u])
        /\ \A u \in mig.failed : users[u].email.kind = "str" /\ users[u].bidx = NoIdx
        /\ \A k \in DOMAIN journal : k \notin mig.jfailed => JournalDone(k)
        /\ \A k \in mig.jfailed : journal[k].topics.kind = "str"
        /\ Cardinality(mig.failed) + Cardinality(mig.jfailed) = 1 =>
              /\ mig.errors = 1
              /\ mig.migrated + Cardinality(mig.failed) = Cardinality(mig.scanned)

C10_Witness ==
    /\ mig.pc = "done" /\ ~mig.dry /\ ~mig.stopped
    /\ mig.failed = {1} /\ mig.errors = 1 /\ mig.migrated = 1
    /\ users[1].bidx = NoIdx
    /\ IndexMatchesEmail(users[2])
    /\ journal[<<1, 1>>].topics.kind = "b64"

\* ---------------------------------------------------------------- C11
\* The rows a live run over the tables as they are would count as migrated.
LiveWouldMigrateUsers ==
    {u \in UserIds : MigrateUserRow(KeyedSvc, users[u], 1).res = "migrated"}

LiveWouldMigrateJournal ==
    {k \in DOMAIN journal : MigrateJournalRow(KeyedSvc, journal[k], 1).res = "migrated"}

\* C11: a run with the dry-run flag writes nothing (every sensitive column and
\* blind index is the same before and after each of its steps), and the number
\* of rows it reports as would-migrate is the number a live run over the same
\* dataset would report as migrated.
C11_DryRunWritesNothing ==
    [][/\ (mig.dry /\ mig.pc \in {"users", "journal"} /\ mig' # mig) =>
              (users' = users /\ goals' = goals /\ journal' = journal)
       /\ (mig'.pc = "done" /\ mig.pc = "journal" /\ mig'.dry /\ ~mig'.stopped /\ mig'.errors = 0) =>
              /\ mig'.migrated = Cardinality(LiveWouldMigrateUsers)
              /\ mig'.jmigrated = Cardinality(LiveWouldMigrateJournal)]_vars

C11_Witness ==
    /\ mig.pc = "done" /\ mig.dry /\ ~mig.stopped /\ mig.errors = 0
    /\ mig.migrated = 2 /\ mig.jmigrated = 1
    /\ users[1].bidx = NoIdx /\ users[2].email.kind = "str"
    /\ journal[<<1, 1>>].topics.kind = "str"

\* The migration beside a server that takes sign-ups and log-ins.
NextBackfillLogin ==
    \/ NextBackfill
    \/ DoLogin

SpecBackfillLogin == Init /\ [][NextBackfillLogin]_vars

\* The rows the live run found with an unset blind index and has rewritten.
LiveMigratedRows ==
    {u \in UserIds : u \in mig.scanned /\ ~mig.dry /\ users[u].bidx # NoIdx}

\* A step of the live run that sets the blind index of a row stores the index
\* of the row's plaintext email and an email that decrypts to it.
MigratedRowKeepsEmail ==
    \A u \in UserIds :
        (users[u].bidx = NoIdx /\ users'[u].bidx # NoIdx) =>
            /\ users'[u].bidx = GenerateBlindIndex(KeyedSvc, users[u].email.s)
            /\ Decrypt(KeyedSvc, users'[u].email) = Ok(users[u].email)
            /\ users'[u].pw = users[u].pw

\* C12: a users row that held the plaintext email e and no blind index before
\* a live migration holds, after it, the blind index of e and an email that
\* decrypts to e, so that a Login with e and the row's password resolves to
\* that row.
C12_MigratedRowLogsIn ==
    [][/\ MigratedRowKeepsEmail
       /\ (resp' # resp /\ resp'.op = "login") =>
              \A u \in LiveMigratedRows :
                  (resp'.reqEmail = LegacyEmail(u) /\ resp'.reqPw = "p") =>
                      (resp'.status = 200 /\ resp'.uid = u)]_vars

\* The part of C12 about the stored values alone.
C12_StoredValues == [][MigratedRowKeepsEmail]_vars

C12_Witness ==
    /\ 1 \in LiveMigratedRows
    /\ resp.op = "login" /\ resp.reqEmail = LegacyEmail(1) /\ resp.reqPw = "p"
    /\ resp.status = 200 /\ resp.uid = 1

\* A live migration beside a server that takes the requests that write the
\* tables it rewrites: a sign-up, and the first user's new entry text and goal
\* (both differ from what the earlier release stored).
NewTopics == <<"v">>
NewGoal == Str(<<"h">>)
ConcurrentSignup == \E rnd \in Rnd : Signup(<<"b">>, "p", rnd)
ConcurrentUpsertEntry == \E rnd \in Rnd : UpsertEntry(1, NewTopics, 5, 5, 1, rnd)
ConcurrentUpdateMe == \E rnd \in Rnd : UpdateMe(1, NoFields, NewGoal, "ok", rnd)
ConcurrentMigrateData ==
    \E rnd \in Rnd :
        MigrateData(1, [present |-> TRUE, goal |-> NewGoal, dates |-> "ok"],
                    <<EntryIn(NewTopics, 5, 5, 1)>>, rnd, <<rnd>>)

NextBackfillWrite ==
    \/ BootCheckKeys
    \/ BootRunMigrations
    \/ BootServe
    \/ ConcurrentSignup
    \/ ConcurrentUpdateMe
    \/ ConcurrentUpsertEntry
    \/ ConcurrentMigrateData
    \/ MigStart(FALSE)
    \/ \E rnd \in Rnd : MigUserRow(rnd)
    \/ MigUsersDone
    \/ \E rnd \in Rnd : MigJournalRow(rnd)
    \/ MigJournalDone

SpecBackfillWrite == Init /\ [][NextBackfillWrite]_vars

\* What a stored text stands for: its plaintext when it decrypts under the
\* keys of the environment, the text itself otherwise.
PlainOf(v) == IF Decrypt(KeyedSvc, v).err = "" THEN Decrypt(KeyedSvc, v).val ELSE v

\* A step of the migration keeps what every row stands for and leaves every
\* stored Ciphertext as it is.
MigratorKeepsRows ==
    (mig.pc \in {"users", "journal"} /\ mig' # mig) =>
        /\ goals' = goals
        /\ \A u \in UserIds :
              /\ PlainOf(users'[u].email) = PlainOf(users[u].email)
              /\ users[u].email.kind = "b64" => users'[u] = users[u]
        /\ \A k \in DOMAIN journal :
              journal[k] # NoEntry =>
                  /\ PlainOf(journal'[k].topics) = PlainOf(journal[k].topics)
                  /\ journal[k].topics.kind = "b64" => journal'[k] = journal[k]

\* A live run has ended without an error.
LiveRunComplete == mig.pc = "done" /\ ~mig.dry /\ ~mig.stopped /\ mig.errors = 0

Decrypts(v) == v.kind = "b64" /\ Decrypt(KeyedSvc, v).err = ""

UsersAndJournalDecrypt ==
    /\ \A u \in UserIds : Decrypts(users[u].email)
    /\ \A k \in DOMAIN journal :
          journal[k] # NoEntry => (journal[k].topics = EmptyStr \/ Decrypts(journal[k].topics))

GoalsDecrypt ==
    \A u \in UserIds : goals[u] # Null => (goals[u] = EmptyStr \/ Decrypts(goals[u]))

\* C13: while a live migration runs beside Signup, UpsertEntry, UpdateMe and
\* MigrateData, the migration neither loses nor overwrites a committed write
\* and encrypts no value twice; once it has completed, every row of the
\* tables the handlers write decrypts, with one Decrypt, to the plaintext of
\* the last write to it.
C13_NoWriteLost ==
    [][/\ MigratorKeepsRows
       /\ LiveRunComplete' => (UsersAndJournalDecrypt' /\ GoalsDecrypt')]_vars

\* The part of C13 about the rows the migration rewrites.
C13_MigratedTables ==
    [][/\ MigratorKeepsRows
       /\ LiveRunComplete' => UsersAndJournalDecrypt']_vars

C13_Witness ==
    /\ LiveRunComplete
    /\ mig.skipped > 0 /\ mig.migrated > 0
    /\ Decrypts(journal[<<1, 1>>].topics)

\* The states of a row in the migration.
UserPlaintext(row) == row.email.kind = "str" /\ row.bidx = NoIdx
UserMigrated(row) == Decrypts(row.email) /\ row.bidx # NoIdx
TopicsPlaintext(entry) == entry.topics.kind = "str" /\ entry.topics # EmptyStr
TopicsMigrated(entry) == Decrypts(entry.topics)

\* C14: the email and blind index of a users row and the topics of a journal
\* entry change only in a step of a live run on that row, from Plaintext to
\* Migrated; a dry run leaves the row Plaintext; MigrateRow on a row that is
\* already encrypted (blind index set, or topics that decrypt) reports it as
\* skipped and returns it unchanged. So no field is encrypted twice and a
\* Migrated row never returns to Plaintext.
C14_RowStateMachine ==
    [][/\ \A u \in UserIds :
             (users'[u].email # users[u].email \/ users'[u].bidx # users[u].bidx) =>
                 /\ mig.pc = "users" /\ ~mig.dry /\ mig.queue # <<>> /\ Head(mig.queue) = u
                 /\ UserPlaintext(users[u]) /\ UserMigrated(users'[u])
       /\ \A k \in DOMAIN journal :
             (journal[k] # NoEntry /\ journal'[k].topics # journal[k].topics) =>
                 /\ mig.pc = "journal" /\ ~mig.dry /\ mig.jqueue # <<>> /\ Head(mig.jqueue) = k
                 /\ TopicsPlaintext(journal[k]) /\ TopicsMigrated(journal'[k])
       /\ \A u \in UserIds, rnd \in Rnd :
             users[u].bidx # NoIdx =>
                 MigrateUserRow(KeyedSvc, users[u], rnd) = [row |-> users[u], res |-> "skipped"]
       /\ \A k \in DOMAIN journal, rnd \in Rnd :
             (journal[k] # NoEntry /\ TopicsMigrated(journal[k])) =>
                 MigrateJournalRow(KeyedSvc, journal[k], rnd) = [entry |-> journal[k], res |-> "skipped"]]_vars

C14_Witness ==
    /\ mig.runs >= 1 /\ mig.pc = "done" /\ ~mig.dry /\ mig.skipped > 0
    /\ UserMigrated(users[1])
    /\ TopicsMigrated(journal[<<1, 1>>])

\* ------------------------------------------- the per-entity methods alone
\* EncryptUser called on a user built outside the server: an email, a goal
\* (absent, empty or set), and one draw of the random source for each.
UserGoalsIn == {Null, EmptyStr, Str(<<"g">>)}

CxEncryptUser(key, email, goal, rnd, rndGoal) ==
    /\ phase = "init"
    /\ cx.stage = "new"
    /\ LET user == User(Str(email), EmptyIdx, "", goal)
       IN  cx' = [cx EXCEPT !.stage = "user", !.key = key, !.user = user,
                            !.userOut = EncryptUserWithGoal(CxService(key), user, rnd, rndGoal)]
    /\ UNCHANGED <<env, phase, dbvars, svc, resp, faults, mig>>

\* MigrateData with a goal and one entry, each encrypted with a draw of its own.
MigrateDataTwoDraws ==
    \E rndG \in Rnd, rnd \in Rnd :
        MigrateData(1, [present |-> TRUE, goal |-> NewGoal, dates |-> "ok"],
                    <<EntryIn(NewTopics, 5, 5, 1)>>, rndG, <<rnd>>)

\* The per-entity methods alone, or the server with the requests that
\* encrypt an entity and store it.
NextEntity ==
    \/ \E key \in GoodKeys, email \in Plaintexts \ {Empty}, goal \in UserGoalsIn,
          rnd \in Rnd, rndGoal \in Rnd : CxEncryptUser(key, email, goal, rnd, rndGoal)
    \/ cx.stage = "new" /\ BootCheckKeys
    \/ cx.stage = "new" /\ BootRunMigrations
    \/ cx.stage = "new" /\ BootServe
    \/ cx.stage = "new" /\ ConcurrentSignup
    \/ cx.stage = "new" /\ ConcurrentUpdateMe
    \/ cx.stage = "new" /\ ConcurrentUpsertEntry
    \/ cx.stage = "new" /\ MigrateDataTwoDraws

SpecEntity == Init /\ [][NextEntity]_vars

\* A request whose encryption failed is answered 500 and stores nothing.
FailedEncryptionStoresNothing ==
    faults' # faults =>
        (users' = users /\ goals' = goals /\ journal' = journal /\ resp'.status = 500)

\* No users row has an encrypted email without its blind index, or the reverse.
NoMixedUserRow == \A u \in UserIds : (users[u].email.kind = "b64") <=> (users[u].bidx # NoIdx)

EncryptedTwice ==
    cx.stage = "again" /\ cx.pt # Empty /\ cx.enc.err = "" /\ cx.again.err = ""

\* C16 as stated: no two Encrypt calls under one key use the same nonce, so
\* two encryptions of the same plaintext yield different Ciphertexts.
C16_NonceNeverReused ==
    EncryptedTwice => (cx.again.val.nonce # cx.enc.val.nonce /\ cx.again.val # cx.enc.val)

\* C16, amended: every Encrypt call seals under the nonce it drew from the
\* random source in that call and nothing else decides the nonce, so two
\* encryptions of the same plaintext yield different Ciphertexts exactly when
\* the two draws differ; both decrypt to the plaintext.
C16_NonceIsTheDraw ==
    EncryptedTwice =>
        /\ cx.enc.val.nonce = cx.rnd /\ cx.again.val.nonce = cx.rnd2
        /\ (cx.again.val # cx.enc.val) <=> (cx.rnd2 # cx.rnd)
        /\ Decrypt(CxService(cx.key), cx.again.val) = Ok(Str(cx.pt))
        /\ Decrypt(CxService(cx.key), cx.enc.val) = Ok(Str(cx.pt))

C16_Witness ==
    /\ EncryptedTwice
    /\ cx.rnd # cx.rnd2
    /\ cx.again.val # cx.enc.val

\* C17: GenerateBlindIndex is a function of the plaintext and the index key
\* alone: a second call with the same plaintext and index key returns the
\* same index whatever was called in between and whatever the encryption
\* key; it has no error result; the empty string gives the empty index, and
\* no non-empty plaintext does, under any key.
C17_BlindIndexDeterministic ==
    /\ cx.idxCalls = 2 => cx.idx2 = cx.idx
    /\ cx.idxCalls >= 1 =>
          /\ cx.idx = GenerateBlindIndex(NewEncryptionService(KeyA, cx.ikey), cx.pt)
          /\ (cx.pt = Empty) <=> (cx.idx = EmptyIdx)
    /\ \A k \in GoodKeys, pt \in Plaintexts \ {Empty} :
          GenerateBlindIndex(NewEncryptionService(KeyA, k), pt) # EmptyIdx
    /\ \A k \in GoodKeys, pt \in Plaintexts, rnd \in Rnd :
          LET r == EncryptWithBlindIndex(NewEncryptionService(KeyA, k), pt, rnd)
          IN  r.err = "" => r.blindIndex = GenerateBlindIndex(NewEncryptionService(KeyB, k), pt)

C17_Witness ==
    /\ cx.idxCalls = 2 /\ cx.stage = "dec" /\ cx.out.err = ""
    /\ cx.pt # Empty /\ cx.idx2 = cx.idx /\ cx.idx # EmptyIdx

\* C18: Decrypt of a text that is not a base64 encoding fails with the decode
\* error; of an encoding of fewer bytes than a nonce, with the truncation
\* error; of a blob whose tag does not verify (altered nonce, sealed bytes or
\* tag, no room for a tag, or another key), with the authentication error;
\* and with an error it returns no plaintext.
C18_DecryptClassifiesErrors ==
    (cx.stage = "dec" /\ cx.pt # Empty) =>
        /\ cx.alter = "junk" => cx.out.err = "decode"
        /\ cx.alter = "cut" => cx.out.err = "short"
        /\ cx.alter \in {"nonce", "body", "tag", "stub"} => cx.out.err = "auth"
        /\ (cx.alter \in {"none", "slack"} /\ cx.dkey # cx.key) => cx.out.err = "auth"
        /\ cx.out.err \in {"", "decode", "short", "auth"}
        /\ cx.out.err # "" => cx.out.val = EmptyStr

C18_Witness ==
    /\ cx.stage = "dec" /\ cx.pt # Empty
    /\ cx.alter = "cut" /\ cx.out = Fail("short")

\* A live migration followed by its verification, beside a server that takes
\* sign-ups.
NextVerify ==
    \/ BootCheckKeys
    \/ BootRunMigrations
    \/ BootServe
    \/ ConcurrentSignup
    \/ MigStart(FALSE)
    \/ \E rnd \in Rnd : MigUserRow(rnd)
    \/ MigUsersDone
    \/ \E rnd \in Rnd : MigJournalRow(rnd)
    \/ MigJournalDone
    \/ MigStop
    \/ \E n \in SampleSizes, sample \in SUBSET UserIds, ek \in GoodKeys, bk \in GoodKeys :
          MigVerify(n, sample, ek, bk)

SpecVerify == Init /\ [][NextVerify]_vars

\* The stored row is a blob sealed and tagged under the encryption key of s
\* and carries the HMAC of the sealed plaintext under the index key of s.
SealedAndIndexedUnder(s, row) ==
    /\ row.email.kind = "b64"
    /\ row.email.body.key = s.ek.id
    /\ row.email.body.nonce = row.email.nonce
    /\ row.email.tag = [key |-> s.ek.id, nonce |-> row.email.nonce, body |-> row.email.body]
    /\ row.bidx = [k |-> s.bk.id, p |-> row.email.body.pt]

\* C19: Verify leaves every row as it was; of the sampled migrated rows it
\* counts as passed exactly those that decrypt under its keys and whose stored
\* blind index is the index of the decrypted email, and as failed the others
\* (rows written under another encryption key or another index key).
C19_VerifyCountsAndKeeps ==
    [][(mig'.verified /\ ~mig.verified) =>
           /\ users' = users /\ goals' = goals /\ journal' = journal
           /\ mig'.vsample \subseteq {u \in UserIds : users[u].bidx # NoIdx}
           /\ mig'.vpass =
                 Cardinality({u \in mig'.vsample : SealedAndIndexedUnder(mig'.vsvc, users[u])})
           /\ mig'.vpass + mig'.vfail = Cardinality(mig'.vsample)]_vars

C19_Witness ==
    /\ mig.verified /\ ~mig.dry /\ mig.migrated > 0
    /\ Cardinality(mig.vsample) = 2
    /\ mig.vpass = 2 /\ mig.vfail = 0

\* ------------------------------------- concurrent calls on the one service
\* The handlers' goroutines call the methods of the instance main() built.
\* A call reads the key fields of the instance (aes.NewCipher, hmac.New), then
\* computes on values of its own and returns.
EncryptOps == {"Encrypt", "EncryptUser", "EncryptGoal", "EncryptJournal"}
DecryptOps == {"Decrypt", "DecryptUser", "DecryptGoal", "DecryptJournal"}
CallOps == EncryptOps \cup DecryptOps \cup {"GenerateBlindIndex"}
CallIds == 1..MaxCalls

\* The arguments: a plaintext, or a stored text (a Ciphertext of the service,
\* or a text that does not decode).
ArgsOf(op) ==
    IF op \in DecryptOps THEN {Encrypt(KeyedSvc, <<"a">>, 1).val, Str(<<"?">>)}
    ELSE {Str(<<"a">>)}

FromText(r) == [val |-> r.val, idx |-> EmptyIdx, err |-> r.err]
FromUser(r) == [val |-> r.user.email, idx |-> r.user.bidx, err |-> r.err]

\* The method op on the keys s with the argument arg and the draw rnd.
Run(op, s, arg, rnd) ==
    IF op = "Encrypt" THEN FromText(Encrypt(s, arg.s, rnd))
    ELSE IF op = "Decrypt" THEN FromText(Decrypt(s, arg))
    ELSE IF op = "GenerateBlindIndex"
    THEN [val |-> EmptyStr, idx |-> GenerateBlindIndex(s, arg.s), err |-> ""]
    ELSE IF op = "EncryptUser" THEN FromUser(EncryptUser(s, User(arg, EmptyIdx, "", Null), rnd))
    ELSE IF op = "DecryptUser" THEN FromUser(DecryptUser(s, User(arg, EmptyIdx, "", Null)))
    ELSE IF op = "EncryptGoal" THEN FromText(EncryptGoal(s, arg.s, rnd))
    ELSE IF op = "DecryptGoal" THEN FromText(DecryptGoal(s, arg))
    ELSE IF op = "EncryptJournal" THEN FromText(EncryptJournal(s, arg.s, rnd))
    ELSE FromText(DecryptJournal(s, arg))

CallBegin(c, op, arg, rnd) ==
    /\ phase = "serving"
    /\ cx.calls[c].pc = "idle"
    /\ op \in EncryptOps \/ rnd = 0
    /\ cx' = [cx EXCEPT !.calls[c] = [IdleCall EXCEPT !.pc = "begun", !.op = op,
                                                      !.arg = arg, !.rnd = rnd]]
    /\ UNCHANGED <<env, phase, dbvars, svc, resp, faults, mig>>

CallReadKeys(c) ==
    /\ cx.calls[c].pc = "begun"
    /\ cx' = [cx EXCEPT !.calls[c].pc = "keyed", !.calls[c].s = svc]
    /\ UNCHANGED <<env, phase, dbvars, svc, resp, faults, mig>>

\* A call that clears the key of the instance when it returns.
CallReturnClearingKey(c) ==
    /\ cx.calls[c].pc = "keyed"
    /\ cx' = [cx EXCEPT !.calls[c].pc = "done",
                        !.calls[c].res = Run(cx.calls[c].op, cx.calls[c].s,
                                             cx.calls[c].arg, cx.calls[c].rnd)]
    /\ svc' = [svc EXCEPT !.ek = NoKey]
    /\ UNCHANGED <<env, phase, dbvars, resp, faults, mig>>

CallReturn(c) ==
    /\ cx.calls[c].pc = "keyed"
    /\ cx' = [cx EXCEPT !.calls[c].pc = "done",
                        !.calls[c].res = Run(cx.calls[c].op, cx.calls[c].s,
                                             cx.calls[c].arg, cx.calls[c].rnd)]
    /\ UNCHANGED <<env, phase, dbvars, svc, resp, faults, mig>>

NextCalls ==
    \/ BootCheckKeys
    \/ BootRunMigrations
    \/ BootServe
    \/ \E c \in CallIds, op \in CallOps, rnd \in Rnd :
          \E arg \in ArgsOf(op) : CallBegin(c, op, arg, rnd)
    \/ \E c \in CallIds : CallReadKeys(c)
    \/ \E c \in CallIds : CallReturn(c)

SpecCalls == Init /\ [][NextCalls]_vars

\* C20: the methods of the service share nothing they write: whatever the
\* interleaving of the calls on the one instance, every call returns what the
\* same call returns alone on the instance as constructed, and the keys of
\* the instance never change after construction.
C20_CallsIndependent ==
    [][/\ svc.ok => svc' = svc
       /\ \A c \in CallIds :
             cx'.calls[c].pc = "done" =>
                 cx'.calls[c].res = Run(cx'.calls[c].op, NewEncryptionService(env.ek, env.bk),
                                        cx'.calls[c].arg, cx'.calls[c].rnd)]_vars

C20_Witness ==
    /\ cx.calls[1].pc = "done" /\ cx.calls[1].op = "Decrypt" /\ cx.calls[1].res.err = ""
    /\ cx.calls[2].pc = "done" /\ cx.calls[2].op = "EncryptUser" /\ cx.calls[2].res.err = ""
    /\ cx.calls[2].res.idx # EmptyIdx

\* ------------------------------------------------------------ C21 .. C29
\* The server restricted to the journal and data-migration requests.
NextJournal ==
    \/ BootCheckKeys
    \/ BootRunMigrations
    \/ BootServe
    \/ DoUpsertEntry
    \/ DoDelete
    \/ DoMigrateData

SpecJournal == Init /\ [][NextJournal]_vars

\* The entries of a request that the handlers must reject.
RejectedEntryArgs ==
    {e \in EntryArgs : e.topics = Empty \/ e.ar \notin 1..10 \/ e.cr \notin 1..10 \/ e.d \notin Dates}

RatingsInRange ==
    \A k \in DOMAIN journal :
        journal[k] # NoEntry => (journal[k].ar \in 1..10 /\ journal[k].cr \in 1..10)

PriorSvc == NewEncryptionService(KeyA, KeyB)
StoredText(pt, nonce) == Encrypt(PriorSvc, pt, nonce).val
StoredUser(u, admins) ==
    LET enc == EncryptUser(PriorSvc, User(Str(LegacyEmail(u)), EmptyIdx, "", Null), u)
    IN  [User(enc.user.email, enc.user.bidx, Bcrypt("p"), Null) EXCEPT !.isAdmin = u \in admins]

InitDBAccounts ==
    /\ schema = "fresh"
    /\ \E n \in 1..MaxUsers, admins \in SUBSET (1..MaxUsers),
          g \in {Null, StoredText(<<"g">>, 1)}, t \in {Null, StoredText(<<"w">>, 1)} :
         /\ admins \subseteq 1..n
         /\ users = [u \in 1..n |-> StoredUser(u, admins)]
         /\ goals = [u \in 1..MaxUsers |->
                        IF u = 1 THEN g ELSE IF u <= n THEN StoredText(<<"x">>, 2) ELSE Null]
         /\ journal = [k \in (1..MaxUsers) \X Dates |->
                        IF k[1] = 1 THEN (IF t = Null THEN NoEntry ELSE Entry(t, 5, 5, 8))
                        ELSE IF k[1] <= n THEN Entry(StoredText(<<"y">>, 2), 7, 3, 8)
                        ELSE NoEntry]

InitAccounts ==
    /\ env \in EnvPairs
    /\ phase = "init"
    /\ InitDBAccounts
    /\ svc = NoSvc
    /\ resp = NoResp
    /\ faults = 0
    /\ mig = MigIdle
    /\ cx = CxNew

\* Request bodies with users columns.
UserFieldsIn ==
    {NoFields, [firstName |-> Str(<<"n">>), isAdmin |-> "absent"],
     [firstName |-> Null, isAdmin |-> "true"], [firstName |-> Str(<<"n">>), isAdmin |-> "false"]}
\* The draws of a MigrateData request: for the goal, then for the entry.
DrawPairs == {<<1, 2>>, <<0, 1>>, <<1, 0>>}
NamedProfilesIn ==
    {[present |-> TRUE, goal |-> g, dates |-> ds, firstName |-> Str(<<"n">>)] :
        g \in {Null, NewGoal}, ds \in {"ok", "bad"}}

DoUpdateMeProfile ==
    \E uid \in Callers, f \in UserFieldsIn, g \in {Null, NewGoal}, ds \in DateArgs, rnd \in {0, 1} :
        UpdateMe(uid, f, g, ds, rnd)
MigratedEntriesIn == {<<>>, <<EntryIn(NewTopics, 5, 5, 1)>>, <<EntryIn(NewTopics, 0, 5, 1)>>}
DoMigrateDataProfile ==
    \E uid \in Callers, pr \in NamedProfilesIn, es \in MigratedEntriesIn,
       rnds \in DrawPairs :
        MigrateData(uid, pr, es, rnds[1], [i \in 1..Len(es) |-> rnds[2]])
DoOverview == \E uid \in 1..MaxUsers : Overview(uid)

\* The server on such a database, with the requests of the sessions.
NextAccounts ==
    \/ BootCheckKeys
    \/ BootRunMigrations
    \/ BootServe
    \/ ConcurrentSignup
    \/ DoLogin
    \/ DoGetMe
    \/ DoList
    \/ DoOverview
    \/ DoUpdateMeProfile
    \/ ConcurrentUpsertEntry
    \/ DoDelete
    \/ DoMigrateDataProfile

SpecAccounts == InitAccounts /\ [][NextAccounts]_vars

\* C22: the admin overview answers 200 with the statistics only to a caller
\* whose stored is_admin is true; a caller whose is_admin is false, or who has
\* no users row, is answered 403 and gets no statistics.
C22_OverviewOnlyForAdmins ==
    [][(resp'.op = "overview" /\ phase = "serving") =>
          IF resp'.uid \in UserIds /\ users[resp'.uid].isAdmin
          THEN /\ resp'.status = 200
               /\ resp'.stats = <<Len(users), Cardinality({k \in DOMAIN journal : journal[k] # NoEntry})>>
          ELSE resp'.status = 403 /\ resp'.stats = NoStats]_vars

C22_Witness ==
    /\ resp.op = "overview" /\ resp.status = 403 /\ resp.stats = NoStats
    /\ resp.uid \in UserIds /\ ~users[resp.uid].isAdmin
    /\ \E u \in UserIds : users[u].isAdmin

\* The server on such a database serving MigrateData requests only.
NextMigrateData ==
    \/ BootCheckKeys
    \/ BootRunMigrations
    \/ BootServe
    \/ DoMigrateDataProfile

SpecMigrateData == InitAccounts /\ [][NextMigrateData]_vars

\* The request is stored whole: the first_name, the goal when there is one,
\* and every entry; no other row is touched.
StoredWhole(uid, pr, es) ==
    /\ users' = [users EXCEPT ![uid].firstName = pr.firstName]
    /\ IF pr.goal # Null THEN PlainOf(goals'[uid]) = pr.goal ELSE goals'[uid] = goals[uid]
    /\ \A u \in (1..MaxUsers) \ {uid} : goals'[u] = goals[u]
    /\ \A k \in DOMAIN journal :
          IF \E i \in 1..Len(es) : k = <<uid, es[i].d>>
          THEN \E i \in 1..Len(es) :
                  /\ k = <<uid, es[i].d>>
                  /\ journal'[k].ar = es[i].ar /\ journal'[k].cr = es[i].cr
                  /\ PlainOf(journal'[k].topics) = Str(es[i].topics)
          ELSE journal'[k] = journal[k]

StoredNothing == users' = users /\ goals' = goals /\ journal' = journal

EntryRejected(e) ==
    e.topics = Empty \/ e.ar \notin 1..10 \/ e.cr \notin 1..10 \/ e.d \notin Dates

\* C23 as stated: MigrateData is all-or-nothing; an invalid entry, an invalid
\* profile date or a failed encryption rolls the transaction back and no
\* users, goals or journal_entries row changes; otherwise the profile
\* fields, the goal and the entries are committed together.
C23_AllOrNothing ==
    [][\A uid \in Callers, pr \in NamedProfilesIn, es \in MigratedEntriesIn, rnds \in DrawPairs :
          (resp'.op = "migrate" /\ MigrateData(uid, pr, es, rnds[1], [i \in 1..Len(es) |-> rnds[2]])) =>
              IF \/ pr.dates = "bad"
                 \/ pr.goal # Null /\ rnds[1] = 0
                 \/ \E i \in 1..Len(es) : EntryRejected(es[i]) \/ rnds[2] = 0
              THEN resp'.status \in {400, 500} /\ StoredNothing
              ELSE resp'.status = 201 /\ StoredWhole(uid, pr, es)]_vars

\* C23, amended: the same, the profile dates being validated (and able to
\* roll the transaction back) only when the profile carries a goal.
C23_AllOrNothingDatesWithGoal ==
    [][\A uid \in Callers, pr \in NamedProfilesIn, es \in MigratedEntriesIn, rnds \in DrawPairs :
          (resp'.op = "migrate" /\ MigrateData(uid, pr, es, rnds[1], [i \in 1..Len(es) |-> rnds[2]])) =>
              IF \/ pr.goal # Null /\ pr.dates = "bad"
                 \/ pr.goal # Null /\ rnds[1] = 0
                 \/ \E i \in 1..Len(es) : EntryRejected(es[i]) \/ rnds[2] = 0
              THEN resp'.status \in {400, 500} /\ StoredNothing
              ELSE resp'.status = 201 /\ StoredWhole(uid, pr, es)]_vars

\* A request has been committed (first_name, goal, entry), and a later one
\* with a goal that encrypted and an entry that did not has been rolled back.
C23_Witness ==
    /\ resp.op = "migrate" /\ resp.status = 500 /\ faults = 1
    /\ users[1].firstName = Str(<<"n">>)
    /\ PlainOf(goals[1]) = NewGoal
    /\ PlainOf(journal[<<1, 1>>].topics) = Str(NewTopics)

\* The journal requests, an entry being saved a second time with other
\* topics and ratings.
OtherEntry == EntryIn(NewTopics, 7, 4, 1)
UpsertEntryAgain == \E rnd \in Nonces : UpsertEntry(1, OtherEntry.topics, OtherEntry.ar, OtherEntry.cr, OtherEntry.d, rnd)

NextUpsert ==
    \/ BootCheckKeys
    \/ BootRunMigrations
    \/ BootServe
    \/ DoUpsertEntry
    \/ UpsertEntryAgain
    \/ DoDelete
    \/ ConcurrentMigrateData

SpecUpsert == Init /\ [][NextUpsert]_vars

\* The rows of journal_entries of one user and date, by what they hold.
RowsOf(js, uid, d) == {e \in {js[<<uid, d>>]} : e # NoEntry}

\* C24: journal_entries holds at most one entry per (user_id, local_date);
\* UpsertEntry on a pair that has an entry replaces its topics, both ratings
\* and karma and answers is_update = true; on a pair that has none it creates
\* the entry and answers is_update = false; Delete leaves no entry.
C24_OneEntryPerDate ==
    [][/\ \A uid \in 1..MaxUsers, d \in Dates : Cardinality(RowsOf(journal', uid, d)) <= 1
       /\ \A uid \in Callers, e \in (EntryArgs \cup {OtherEntry}) \ RejectedEntryArgs, rnd \in Nonces :
             (resp'.op = "upsert" /\ UpsertEntry(uid, e.topics, e.ar, e.cr, e.d, rnd)) =>
                 /\ resp'.status = 200
                 /\ resp'.isUpdate = (RowsOf(journal, uid, e.d) # {})
                 /\ journal'[<<uid, e.d>>].ar = e.ar /\ journal'[<<uid, e.d>>].cr = e.cr
                 /\ journal'[<<uid, e.d>>].karma18 = e.ar + e.cr - 2
                 /\ PlainOf(journal'[<<uid, e.d>>].topics) = Str(e.topics)
                 /\ \A k \in DOMAIN journal : k # <<uid, e.d>> => journal'[k] = journal[k]
       /\ (resp'.op = "delete" /\ resp'.status = 204 /\ resp' # resp) =>
             \E d \in Dates : RowsOf(journal, resp'.uid, d) # {} /\ RowsOf(journal', resp'.uid, d) = {}]_vars

\* An entry with ratings 5, 5 has been replaced by one with ratings 7, 4.
C24_Witness ==
    /\ resp.op = "upsert" /\ resp.status = 200 /\ resp.isUpdate
    /\ journal[<<1, 1>>].ar = 7 /\ journal[<<1, 1>>].cr = 4 /\ journal[<<1, 1>>].karma18 = 9
    /\ PlainOf(journal[<<1, 1>>].topics) = Str(NewTopics)

\* C25: on the serving database, after any sequence of UpsertEntry and
\* MigrateData, every stored entry has 18 * karma = alignment_rating +
\* contentment_rating - 2.
C25_KarmaFollowsRatings ==
    phase = "serving" =>
        \A k \in DOMAIN journal :
            journal[k] # NoEntry => journal[k].karma18 = journal[k].ar + journal[k].cr - 2

\* MigrateData has created an entry: its ratings are 5 and 5, its karma 0.
C25_Witness ==
    /\ resp.op = "migrate" /\ resp.status = 201
    /\ journal[<<1, 1>>].ar = 5 /\ journal[<<1, 1>>].cr = 5 /\ journal[<<1, 1>>].karma18 = 0

\* C26: the users table holds at most one row per normalized email,
\* whether the schema was created by this release or upgraded from the
\* earlier one: a Signup with an email that has a row stores nothing.
C26_OneRowPerEmail ==
    phase = "serving" =>
        \A u \in UserIds, v \in UserIds :
            u # v => PlainOf(users[u].email) # PlainOf(users[v].email)

\* On the upgraded schema a Signup has been accepted for the email of a row.
C26_Witness ==
    /\ schema = "upgraded" /\ resp.op = "signup" /\ resp.status \in 200..299
    /\ \E u \in UserIds, v \in UserIds : u < v /\ PlainOf(users[u].email) = PlainOf(users[v].email)

\* The rows of the users other than uid are the same after the step.
OthersUntouched(uid) ==
    /\ \A u \in UserIds \ {uid} : users'[u] = users[u]
    /\ \A u \in (1..MaxUsers) \ {uid} : goals'[u] = goals[u]
    /\ \A k \in DOMAIN journal : k[1] # uid => journal'[k] = journal[k]

\* What the answer carries of the tables comes from the rows of uid.
AnswerFromOwnRows(uid) ==
    /\ resp'.email # Null => resp'.email = PlainOf(users[uid].email)
    /\ resp'.goal # Null => resp'.goal = PlainOf(goals[uid])
    /\ \A i \in 1..Len(resp'.topics) :
          \E d \in Dates : journal[<<uid, d>>] # NoEntry
                           /\ resp'.topics[i] = PlainOf(journal[<<uid, d>>].topics)

\* C27: a journal, goal or profile request of the authenticated user U
\* (UpsertEntry, Delete, List, MigrateData, GetMe, UpdateMe) reads and
\* modifies only rows owned by U: the rows of the other users are unchanged
\* and nothing of them is in the answer.
C27_TenantIsolation ==
    [][(phase = "serving" /\ resp'.op \in {"upsert", "delete", "list", "migrate", "getme", "updateme"}) =>
          /\ resp'.uid \in UserIds
          /\ OthersUntouched(resp'.uid)
          /\ AnswerFromOwnRows(resp'.uid)]_vars

\* With two accounts that both have a goal and an entry, the first has
\* replaced its entry and then listed its journal.
C27_Witness ==
    /\ Len(users) = 2 /\ goals[2] # Null /\ journal[<<2, 1>>] # NoEntry
    /\ resp.op = "list" /\ resp.uid = 1 /\ resp.topics = <<Str(NewTopics)>>

\* C28: no request of a user who is not an admin (Signup, Login, UpdateMe,
\* MigrateData, the journal requests) makes that user's is_admin true;
\* is_admin becomes true only by a request of a user who already is an admin.
C28_NoSelfPromotion ==
    [][\A u \in UserIds :
          (~users[u].isAdmin /\ users'[u].isAdmin) =>
              (resp'.uid \in UserIds /\ users[resp'.uid].isAdmin)]_vars

\* The only account, which was not an admin, has been answered 204 by
\* UpdateMe and is one now.
C28_Witness ==
    /\ Len(users) = 1 /\ users[1].isAdmin
    /\ resp.op = "updateme" /\ resp.status = 204 /\ resp.uid = 1

\* C29: an UpdateMe that ends in an error answer (400 for an invalid
\* start_date or end_date, 500 for a failed goal encryption) leaves the
\* caller's users row and goals row as they were.
C29_FailedUpdateMeStoresNothing ==
    [][(phase = "serving" /\ resp'.op = "updateme" /\ resp'.status \in {400, 500}) =>
          (users' = users /\ goals' = goals)]_vars

\* UpdateMe has answered 400 and the caller's first_name is the request's.
C29_Witness ==
    /\ resp.op = "updateme" /\ resp.status = 400
    /\ users[1].firstName = Str(<<"n">>)

====
